---- MODULE Spec2Model ----
(***************************************************************************)
(* A model of the Quora answer scraper: src/parse_quora.py (the field      *)
(* extractors, the earliest-date resolver and the answer record builder).  *)
(*                                                                         *)
(* Texts are sequences of strings.  Where the code looks inside a text     *)
(* (count tokens, author names, URLs) the text is spelled one character    *)
(* per element; date texts are spelled one regex token per element         *)
(* (a month name, a group of digits, a punctuation sign, a word), a single *)
(* blank being understood between two tokens that are not punctuation.     *)
(* The page renderer (the Selenium driver) is the environment: each of its *)
(* operations either raises or answers with a value of a bounded domain.   *)
(***************************************************************************)
EXTENDS Integers, Sequences, FiniteSets, TLC

VARIABLES
    url,              \* scrape_quora_answer: the url argument
    pc,               \* position in scrape_quora_answer / extract_post_date
    cur,              \* the driver: the page it currently shows
    page,             \* the answer page: has it loaded, does it show a deletion indicator
    is_deleted,       \* scrape_quora_answer: local is_deleted
    author_name,      \* scrape_quora_answer: local author_name
    post_date,        \* scrape_quora_answer: local post_date
    stats,            \* view_count, upvote_count, comment_count, share_count
    result,           \* the records scrape_quora_answer has returned
    invoked,          \* history: the extractors called so far
    how,              \* history: the extractor that returned last, and how
    last_get,         \* history: the target of the latest driver.get
    original_url,     \* extract_post_date: local original_url
    page_source,      \* extract_post_date: local page_source
    restricted_access,\* extract_post_date: local restricted_access
    date_spans,       \* extract_post_date: local date_spans
    all_found_dates,  \* extract_post_date: local all_found_dates (log view)
    all_date_objects, \* extract_post_date: local all_date_objects (page source)
    pd_out,           \* extract_post_date: how it ended (returned / raised)
    strat,            \* the strategy the running extractor tries next
    quora_urls,       \* process_quora_urls: the quora_urls argument
    url_index,        \* process_quora_urls: the position of its for loop
    results,          \* process_quora_urls: local results
    sheet,            \* the spreadsheet: the cells written so far
    waited,           \* history: the delay between requests has been slept
                      \* since scrape_quora_answer returned last
    main_pc,          \* position in main
    args,             \* main: the command line (args.login, args.url)
    driver_created,   \* webdriver.Chrome(...) has started a browser
    quit_calls,       \* history: the number of driver.quit() calls
    max_attempts,     \* get_2fa_code_from_sheet: the max_attempts argument
    attempt,          \* get_2fa_code_from_sheet: the loop variable attempt
    a1,               \* the "Code" worksheet: the value of cell A1
    code_cell,        \* get_2fa_code_from_sheet: local code_cell
    code,             \* get_2fa_code_from_sheet: the value it returns
    ops               \* history: the reads of A1, waits and writes of A1
                      \* get_2fa_code_from_sheet has made in its loop

vars == <<url, pc, cur, page, is_deleted, author_name, post_date, stats,
          result, invoked, how, last_get, original_url, page_source,
          restricted_access, date_spans, all_found_dates,
          all_date_objects, pd_out, strat, quora_urls, url_index, results,
          sheet, waited, main_pc, args, driver_created, quit_calls,
          max_attempts, attempt, a1, code_cell, code, ops>>

\* the state of process_quora_urls
batchVars == <<quora_urls, url_index, results, sheet, waited>>

\* the state of main and of get_2fa_code_from_sheet
mainVars == <<main_pc, args, driver_created, quit_calls>>
codeVars == <<max_attempts, attempt, a1, code_cell, code, ops>>

(***************************************************************************)
(* Bounds of the model.                                                    *)
(***************************************************************************)
MaxSpans == 2        \* date spans the log view answers with
MaxSrcFrags == 2     \* date fragments in the page source
MaxUrls == 3         \* urls handed to process_quora_urls
MaxElems == 2        \* elements one find_elements call answers with
MaxAttempts == 3     \* the max_attempts argument of get_2fa_code_from_sheet
MaxSheetUrls == 2    \* rows get_urls_from_sheet returns to main

(***************************************************************************)
(* Text helpers (Python str operations on sequences).                      *)
(***************************************************************************)
None == <<"<None>">>

\* sub in s, at position i
OccursAt(sub, s, i) ==
    /\ i >= 1
    /\ i + Len(sub) - 1 <= Len(s)
    /\ \A k \in 1..Len(sub) : s[i + k - 1] = sub[k]

\* Python: sub in s
Contains(sub, s) == \E i \in 1..(Len(s) + 1) : OccursAt(sub, s, i)

\* Python: s.find(sub) + 1 (0 when absent)
Find(sub, s) ==
    IF Contains(sub, s)
    THEN CHOOSE i \in 1..(Len(s) + 1) :
            /\ OccursAt(sub, s, i)
            /\ \A j \in 1..(i - 1) : ~OccursAt(sub, s, j)
    ELSE 0

\* Python: s.endswith(sub)
EndsWith(s, sub) == OccursAt(sub, s, Len(s) - Len(sub) + 1)

\* Python: s.split(sub)[0]
SplitHead(s, sub) ==
    IF Find(sub, s) = 0 THEN s ELSE SubSeq(s, 1, Find(sub, s) - 1)

\* Python: the text after the first sub (s.split(sub, 1)[1])
SplitRest(s, sub) == SubSeq(s, Find(sub, s) + Len(sub), Len(s))

\* Python: s.split(sub)[1]
SplitSecond(s, sub) == SplitHead(SplitRest(s, sub), sub)

\* Python: s.replace(a, b) for single characters
ReplaceChar(s, a, b) == [i \in 1..Len(s) |-> IF s[i] = a THEN b ELSE s[i]]

RECURSIVE Remove(_, _)
\* Python: s.replace(a, '') for a single character
Remove(s, a) ==
    IF s = <<>> THEN <<>>
    ELSE IF Head(s) = a THEN Remove(Tail(s), a)
    ELSE <<Head(s)>> \o Remove(Tail(s), a)

Digits == {"0", "1", "2", "3", "4", "5", "6", "7", "8", "9"}

DigitVal(c) ==
    CASE c = "0" -> 0 [] c = "1" -> 1 [] c = "2" -> 2 [] c = "3" -> 3
      [] c = "4" -> 4 [] c = "5" -> 5 [] c = "6" -> 6 [] c = "7" -> 7
      [] c = "8" -> 8 [] c = "9" -> 9

DigitChar(d) ==
    CASE d = 0 -> "0" [] d = 1 -> "1" [] d = 2 -> "2" [] d = 3 -> "3"
      [] d = 4 -> "4" [] d = 5 -> "5" [] d = 6 -> "6" [] d = 7 -> "7"
      [] d = 8 -> "8" [] d = 9 -> "9"

\* Python: s.isdigit() (ASCII digits)
IsDigit(s) == s # <<>> /\ \A i \in 1..Len(s) : s[i] \in Digits

RECURSIVE IntOf(_)
\* Python: int(s) for a digit string
IntOf(s) ==
    IF s = <<>> THEN 0
    ELSE 10 * IntOf(SubSeq(s, 1, Len(s) - 1)) + DigitVal(s[Len(s)])

RECURSIVE StrOf(_)
\* Python: str(n) for n >= 0
StrOf(n) ==
    IF n < 10 THEN <<DigitChar(n)>>
    ELSE StrOf(n \div 10) \o <<DigitChar(n % 10)>>

LowerChar(c) ==
    CASE c = "A" -> "a" [] c = "K" -> "k" [] c = "M" -> "m" [] c = "W" -> "w"
      [] c = "J" -> "j" [] c = "V" -> "v" [] c = "U" -> "u" [] c = "S" -> "s"
      [] c = "T" -> "t" [] c = "B" -> "b"
      [] OTHER -> c

\* Python: s.lower()
Lower(s) == [i \in 1..Len(s) |-> LowerChar(s[i])]

RECURSIVE Pow10(_)
Pow10(n) == IF n = 0 THEN 1 ELSE 10 * Pow10(n - 1)

(***************************************************************************)
(* Count tokens: the regex                                                 *)
(*   (\d+(?:,\d+)*(?:\.\d+)?(?:[KkMm])?)\s+<word>                          *)
(* of the count extractors, and the K/M conversion that follows a match.   *)
(***************************************************************************)
Blank == " "

RECURSIVE DigitRun(_, _)
\* \d*: the last index of the run of digits that starts at i (i - 1: none)
DigitRun(s, i) ==
    IF i <= Len(s) /\ s[i] \in Digits THEN DigitRun(s, i + 1) ELSE i - 1

RECURSIVE CommaGroups(_, _)
\* (?:,\d+)* after index e
CommaGroups(s, e) ==
    IF e + 2 <= Len(s) /\ s[e + 1] = "," /\ s[e + 2] \in Digits
    THEN CommaGroups(s, DigitRun(s, e + 2))
    ELSE e

\* (?:\.\d+)? after index e
FracEnd(s, e) ==
    IF e + 2 <= Len(s) /\ s[e + 1] = "." /\ s[e + 2] \in Digits
    THEN DigitRun(s, e + 2)
    ELSE e

\* (?:[KkMm])? after index e
SuffixEnd(s, e) ==
    IF e + 1 <= Len(s) /\ s[e + 1] \in {"K", "k", "M", "m"} THEN e + 1 ELSE e

RECURSIVE BlankRun(_, _)
\* \s*: the last index of the run of blanks that starts at i (i - 1: none)
BlankRun(s, i) ==
    IF i <= Len(s) /\ s[i] = Blank THEN BlankRun(s, i + 1) ELSE i - 1

\* the end of the count token that starts at i (0: no digit at i)
TokenEnd(s, i) ==
    IF i <= Len(s) /\ s[i] \in Digits
    THEN SuffixEnd(s, FracEnd(s, CommaGroups(s, DigitRun(s, i))))
    ELSE 0

\* the regex matches at i: token, blanks, word
CountAt(s, i, word) ==
    /\ TokenEnd(s, i) > 0
    /\ BlankRun(s, TokenEnd(s, i) + 1) > TokenEnd(s, i)
    /\ OccursAt(word, s, BlankRun(s, TokenEnd(s, i) + 1) + 1)

\* re.search(...).group(1): the leftmost match's token, None without a match
CountSearch(s, word) ==
    IF \E i \in 1..Len(s) : CountAt(s, i, word)
    THEN LET i == CHOOSE i \in 1..Len(s) :
                    /\ CountAt(s, i, word)
                    /\ \A j \in 1..(i - 1) : ~CountAt(s, j, word)
         IN  SubSeq(s, i, TokenEnd(s, i))
    ELSE None

\* Python: s.strip() (blanks)
RECURSIVE Strip(_)
Strip(s) ==
    IF s = <<>> THEN s
    ELSE IF Head(s) = Blank THEN Strip(Tail(s))
    ELSE IF s[Len(s)] = Blank THEN Strip(SubSeq(s, 1, Len(s) - 1))
    ELSE s

\* float(x) raises ValueError: a comma is left in the numeric part
FloatRaises(x) == "," \in {x[i] : i \in 1..Len(x)}

\* The decimal numbers of the model whose binary64 product with mul lies just
\* below the exact product, so that int() truncates to one less.
FloatShort == { <<(<<"4", ".", "1">>), 1000000>>, <<(<<"2", ".", "0", "1">>), 1000>> }

\* int(float(x) * mul) for x = digits[.digits]
ScaleTrunc(x, mul) ==
    LET dot == Find(<<".">>, x)
        ip  == IF dot = 0 THEN x ELSE SubSeq(x, 1, dot - 1)
        fr  == IF dot = 0 THEN <<>> ELSE SubSeq(x, dot + 1, Len(x))
        exact == ((IntOf(ip) * Pow10(Len(fr)) + IntOf(fr)) * mul) \div Pow10(Len(fr))
    IN  IF <<x, mul>> \in FloatShort THEN exact - 1 ELSE exact

Value(v) == [kind |-> "value", val |-> v]
Declined == [kind |-> "declined", val |-> <<>>]
Raised == [kind |-> "raised", val |-> <<>>]

\* a value together with the text it was taken from and the way it was
\* taken: "token" a matched count token through the K/M conversion,
\* "digits" a digits-only text as it is, "join" the digit characters of a
\* text, "script" the answer of a script
Took(v, via, src) == [kind |-> "value", val |-> v, via |-> via, src |-> src]

\* The K/M conversion applied to a matched token: a value, or raised
\* (ValueError from float).
NormalizeCount(tok) ==
    LET low == Lower(tok) IN
    IF Contains(<<"k">>, low)
    THEN IF FloatRaises(Remove(low, "k")) THEN Raised
         ELSE Took(StrOf(ScaleTrunc(Remove(low, "k"), 1000)), "token", tok)
    ELSE IF Contains(<<"m">>, low)
    THEN IF FloatRaises(Remove(low, "m")) THEN Raised
         ELSE Took(StrOf(ScaleTrunc(Remove(low, "m"), 1000000)), "token", tok)
    ELSE Took(Remove(tok, ","), "token", tok)

Zero == <<"0">>

(***************************************************************************)
(* URLs and extract_base_url.                                              *)
(***************************************************************************)
Https == <<"h", "t", "t", "p", "s">>
SchemeSep == <<":", "/", "/">>
Host == <<"x", ".", "c", "o", "m">>
AnswerMark == <<"/", "a", "n", "s", "w", "e", "r", "/">>
LogTail == <<"/", "l", "o", "g">>
LogMid == <<"/", "l", "o", "g", "/">>
ThreadUrl == Https \o SchemeSep \o Host \o <<"/", "T">>
AnswerUrl == ThreadUrl \o AnswerMark \o <<"A", "-", "B">>
AnswerLogUrl == AnswerUrl \o LogTail
LoginUrl == Https \o SchemeSep \o Host \o <<"/", "l", "o", "g", "i", "n">>
\* an answer whose author slug is one character, https://x.com/T/answer/A
ShortSlugUrl == ThreadUrl \o AnswerMark \o <<"A">>
BlankUrl == <<"d", "a", "t", "a", ":", ",">>

\* the urls handed to scrape_quora_answer
Urls == {AnswerUrl, ThreadUrl, AnswerLogUrl}
FewUrls == {AnswerUrl, ThreadUrl}

\* the first index of s holding a character of cs (Len(s) + 1: none)
FirstOf(s, cs) ==
    IF \E i \in 1..Len(s) : s[i] \in cs
    THEN CHOOSE i \in 1..Len(s) :
            s[i] \in cs /\ \A j \in 1..(i - 1) : s[j] \notin cs
    ELSE Len(s) + 1

\* urllib.parse.urlparse: scheme://netloc path ?query #fragment
UrlParse(u) ==
    LET hasScheme == Contains(SchemeSep, u)
        scheme == IF hasScheme THEN SplitHead(u, SchemeSep) ELSE <<>>
        rest   == IF hasScheme THEN SplitRest(u, SchemeSep) ELSE u
        nEnd   == IF hasScheme THEN FirstOf(rest, {"/", "?", "#"}) ELSE 1
        netloc == SubSeq(rest, 1, nEnd - 1)
        tail   == SubSeq(rest, nEnd, Len(rest))
        pEnd   == FirstOf(tail, {"?", "#"})
        after  == SubSeq(tail, pEnd, Len(tail))
        fPos   == FirstOf(after, {"#"})
        qPart  == SubSeq(after, 1, fPos - 1)
    IN  [scheme   |-> scheme,
         netloc   |-> netloc,
         path     |-> SubSeq(tail, 1, pEnd - 1),
         query    |-> IF qPart = <<>> THEN <<>> ELSE Tail(qPart),
         fragment |-> IF fPos > Len(after) THEN <<>>
                      ELSE SubSeq(after, fPos + 1, Len(after))]

\* urllib.parse.urlunsplit
UrlUnsplit(scheme, netloc, path, query, fragment) ==
    (IF scheme = <<>> THEN <<>> ELSE scheme \o <<":">>)
    \o (IF netloc = <<>> THEN <<>> ELSE <<"/", "/">> \o netloc)
    \o path
    \o (IF query = <<>> THEN <<>> ELSE <<"?">> \o query)
    \o (IF fragment = <<>> THEN <<>> ELSE <<"#">> \o fragment)

\* a derivation that returns every URL as it is
ExtractBaseUrlUnchanged(answer_url) == answer_url

\* extract_base_url(answer_url)
extract_base_url(answer_url) ==
    LET parsed == UrlParse(answer_url) IN
    IF Contains(AnswerMark, parsed.path)
    THEN UrlUnsplit(parsed.scheme, parsed.netloc,
                    SplitHead(parsed.path, AnswerMark),
                    parsed.query, parsed.fragment)
    ELSE answer_url

(***************************************************************************)
(* The page renderer's answers.                                            *)
(***************************************************************************)
\* str(e) of what a page-renderer operation raises (selenium renders every
\* WebDriverException as "Message: ...")
Exceptions == { <<"Message: ", "timeout">>, <<"Message: ", "no such window">> }

Stale == <<"<stale element>">>

RECURSIVE SeqsUpTo(_, _)
\* the sequences over S of length at most n
SeqsUpTo(S, n) ==
    IF n = 0 THEN {<<>>}
    ELSE SeqsUpTo(S, n - 1)
         \cup {Append(q, x) : q \in SeqsUpTo(S, n - 1), x \in S}

Failed == [ok |-> FALSE, val |-> <<>>]
Answer(v) == [ok |-> TRUE, val |-> v]

\* driver.find_elements(...): raises, or the texts of the elements found
\* (an element may have gone stale when its text is read)
FindElements(texts) ==
    {Failed} \cup {Answer(l) : l \in SeqsUpTo(texts \cup {Stale}, MaxElems)}

\* driver.find_element(...): raises (no such element), or one element
FindElement(texts) ==
    {Failed} \cup {Answer(<<t>>) : t \in texts \cup {Stale}}

\* driver.execute_script(...): raises, or the script's value
ExecuteScript(values) == {Failed} \cup {Answer(v) : v \in values}

\* where a driver.get(u) that raised has left the browser: on the page it was
AfterFailedGet(u) == {cur}

\* where a driver.get(u) that returned has left the browser
AfterGet(u) == {u}

\* the same for the log view, which may redirect to the login page
AfterGetLog(u) == {u, LoginUrl}

\* The first element of a list that settles the scan of one locator's
\* elements: outs[i] is what element i gives (a value, declined, raised).
\* A raise leaves the locator's try block, so the locator declines.
FirstSettled(outs) ==
    IF \E i \in 1..Len(outs) : outs[i].kind # "declined"
    THEN LET i == CHOOSE i \in 1..Len(outs) :
                    /\ outs[i].kind # "declined"
                    /\ \A j \in 1..(i - 1) : outs[j].kind = "declined"
         IN  IF outs[i].kind = "value" THEN outs[i] ELSE Declined
    ELSE Declined

(***************************************************************************)
(* The texts the answer page may show.                                     *)
(***************************************************************************)
TenDigits == <<"1", "2", "3", "4", "5", "6", "7", "8", "9", "0">>

CountTokens ==
    { <<"7">>, <<"1", "5", "8">>, <<"1", ",", "2", "3", "4">>,
      <<"1", ".", "5">>, <<"1", ".", "2", "K">>, <<"4", ".", "1", "M">>,
      <<"1", ",", "2", "K">>, TenDigits, <<Blank, "2", "1">>,
      <<"V", "i", "e", "w", Blank, "3", "K">> }

\* the count words as the selectors and the tests of the code spell them
Plural ==
    [views    |-> <<"v", "i", "e", "w", "s">>,
     upvotes  |-> <<"u", "p", "v", "o", "t", "e", "s">>,
     comments |-> <<"c", "o", "m", "m", "e", "n", "t", "s">>,
     shares   |-> <<"s", "h", "a", "r", "e", "s">>]

\* the count words without the optional s of the regexes
Singular ==
    [views    |-> <<"v", "i", "e", "w">>,
     upvotes  |-> <<"u", "p", "v", "o", "t", "e">>,
     comments |-> <<"c", "o", "m", "m", "e", "n", "t">>,
     shares   |-> <<"s", "h", "a", "r", "e">>]

\* element texts around a count word: "<token> <word>" and the bare word
CountTexts(tokens, word) ==
    {tok \o <<Blank>> \o word : tok \in tokens} \cup {word}

\* texts of buttons and of the spans inside them
ButtonTexts(tokens) == tokens \cup { <<>>, <<"U", "p", "v", "o", "t", "e">> }

\* the fewer tokens used while a whole answer is scraped
FewTokens == { <<"1", ".", "5">> }

\* texts of the elements the author locators hit
AuthorTexts ==
    { <<"J", "o">>, <<"J">>, <<>>, <<Blank, "A", "l", Blank>>,
      <<"A", "n", "s", "w", "e", "r">> }
FewAuthorTexts == { <<"J", "o">>, <<"J">> }

NameNotFound == <<"Name not found">>
ErrorExtractingName == <<"Error extracting name">>
PostDeleted == <<"POST DELETED">>
ErrorText == <<"Error">>

(***************************************************************************)
(* extract_author_name: strategies 1..4 are the XPath selectors, strategy  *)
(* 5 is the URL of the page.                                               *)
(***************************************************************************)
NAuthor == 5

\* line 37: the validator of an element's text
AuthorAccepts(name) ==
    /\ name # <<>>
    /\ Len(name) > 1
    /\ ~Contains(<<"a", "n", "s", "w", "e", "r">>, Lower(name))

AuthorElement(text) ==
    IF text = Stale THEN Raised
    ELSE IF AuthorAccepts(Strip(text)) THEN Value(Strip(text))
    ELSE Declined

\* lines 44-50: the name from the URL
AuthorFromUrl(current_url) ==
    IF Contains(AnswerMark, current_url)
    THEN Value(ReplaceChar(SplitHead(SplitSecond(current_url, AnswerMark), <<"/">>),
                           "-", Blank))
    ELSE Value(NameNotFound)

AuthorResp(i, texts) ==
    IF i < NAuthor THEN FindElements(texts)
    ELSE {Failed, Answer(cur)}

\* the strategies of an extractor whose except clause returns the default
AuthorStrategyDefault(i, r) ==
    IF i < NAuthor
    THEN IF ~r.ok THEN Declined
         ELSE FirstSettled([j \in 1..Len(r.val) |-> AuthorElement(r.val[j])])
    ELSE IF ~r.ok THEN [kind |-> "abort", val |-> NameNotFound]
         ELSE AuthorFromUrl(r.val)

\* what strategy i makes of the renderer's answer r: a value, declined, or
\* abort (the raise reaches the function's own except clause)
AuthorStrategy(i, r) ==
    IF i < NAuthor
    THEN IF ~r.ok THEN Declined
         ELSE FirstSettled([j \in 1..Len(r.val) |-> AuthorElement(r.val[j])])
    ELSE IF ~r.ok THEN [kind |-> "abort", val |-> ErrorExtractingName]
         ELSE AuthorFromUrl(r.val)

(***************************************************************************)
(* The count extractors.                                                   *)
(***************************************************************************)
\* "<word>" in text, then the regex, then the K/M conversion
CountFromText(text, mark, word) ==
    IF ~Contains(mark, Lower(text)) THEN Declined
    ELSE IF CountSearch(text, word) = None THEN Declined
    ELSE NormalizeCount(CountSearch(text, word))

\* one element of a selector's list: the text is stripped and lowered first
CountElement(text, mark, word) ==
    IF text = Stale THEN Raised
    ELSE CountFromText(Lower(Strip(text)), mark, word)

\* JavaScript /\d+\s+<word>/.test(text)
JsCountTest(text, word) ==
    \E i \in 1..Len(text) :
        /\ text[i] \in Digits
        /\ BlankRun(text, i + 1) > i
        /\ OccursAt(word, text, BlankRun(text, i + 1) + 1)

\* a text that is digits only and, with a limit, shorter than the limit
DigitsOnly(text, limit) ==
    IsDigit(text) /\ (limit > 0 => Len(text) < limit)

\* ''.join(c for c in text if c.isdigit())
RECURSIVE DigitsIn(_)
DigitsIn(text) ==
    IF text = <<>> THEN <<>>
    ELSE IF Head(text) \in Digits THEN <<Head(text)>> \o DigitsIn(Tail(text))
    ELSE DigitsIn(Tail(text))

\* JavaScript text.match(/\d+/)[0]: the first run of digits
FirstDigitRun(text) ==
    LET i == FirstOf(text, Digits) IN SubSeq(text, i, DigitRun(text, i))

Abort(v) == [kind |-> "abort", val |-> v]

\* an element whose stripped text is taken as it is when it is digits only
DigitElement(text, limit) ==
    IF text = Stale THEN Raised
    ELSE IF DigitsOnly(Strip(text), limit)
    THEN Took(Strip(text), "digits", Strip(text))
    ELSE Declined

\* a declined or raised strategy inside its own try block declines
InTry(o) == IF o.kind = "value" THEN o ELSE Declined

\* a strategy outside any inner try block: a raise aborts the extractor
NoTry(o) == IF o.kind = "raised" THEN Abort(Zero) ELSE o

\* ---- extract_view_count: 1 the specific XPath, 2..4 the selectors,
\* 5 the script
NViews == 5

ViewResp(i, tokens) ==
    IF i = 1 THEN FindElement(CountTexts(tokens, Plural.views))
    ELSE IF i < NViews THEN FindElements(CountTexts(tokens, Plural.views))
    ELSE ExecuteScript({None} \cup
            {Strip(t) : t \in {x \in CountTexts(tokens, Plural.views) : JsCountTest(x, Plural.views)}})

ViewStrategy(i, r) ==
    IF i = 1
    THEN IF ~r.ok THEN Declined
         ELSE IF r.val[1] = Stale THEN Declined
         ELSE InTry(CountFromText(Strip(r.val[1]), Plural.views, Singular.views))
    ELSE IF i < NViews
    THEN IF ~r.ok THEN Declined
         ELSE FirstSettled([j \in 1..Len(r.val) |->
                                CountElement(r.val[j], Plural.views, Singular.views)])
    ELSE IF ~r.ok THEN Abort(Zero)
         ELSE IF r.val = None THEN Declined
         ELSE IF CountSearch(r.val, Singular.views) = None THEN Declined
         ELSE NoTry(NormalizeCount(CountSearch(r.val, Singular.views)))

\* ---- extract_upvote_count: 1 the specific XPath, 2 and 3 the scripts,
\* 4 the button texts, 5..7 the selectors
NUpvotes == 7
IdLimit == 10

UpvoteButton(text) ==
    IF text = Stale THEN Raised
    ELSE IF DigitsIn(Strip(text)) # <<>> /\ Len(DigitsIn(Strip(text))) < IdLimit
    THEN Took(DigitsIn(Strip(text)), "join", Strip(text))
    ELSE Declined

UpvoteResp(i, tokens) ==
    IF i = 1 THEN FindElement(ButtonTexts(tokens))
    ELSE IF i \in {2, 3}
    THEN ExecuteScript({None} \cup {t \in ButtonTexts(tokens) : DigitsOnly(t, IdLimit)})
    ELSE IF i = 4 THEN FindElements(ButtonTexts(tokens))
    ELSE FindElements(CountTexts(tokens, Plural.upvotes))

UpvoteStrategy(i, r) ==
    IF ~r.ok THEN Declined
    ELSE IF i = 1 THEN InTry(DigitElement(r.val[1], IdLimit))
    ELSE IF i \in {2, 3}
    THEN IF r.val = None \/ r.val = <<>> THEN Declined
         ELSE Took(r.val, "script", r.val)
    ELSE IF i = 4
    THEN FirstSettled([j \in 1..Len(r.val) |-> UpvoteButton(r.val[j])])
    ELSE FirstSettled([j \in 1..Len(r.val) |->
                            CountElement(r.val[j], Singular.upvotes, Singular.upvotes)])

\* ---- extract_comment_count: 1 the specific XPath, 2 the script, 3 the
\* button spans, 4 the button texts, 5 the second script, 6 and 7 the
\* selectors
NComments == 7

CommentButton(text) ==
    IF text = Stale THEN Raised
    ELSE IF DigitsOnly(Strip(text), 0)
    THEN Took(Strip(text), "digits", Strip(text))
    ELSE IF DigitsIn(Strip(text)) # <<>>
    THEN Took(DigitsIn(Strip(text)), "join", Strip(text))
    ELSE Declined

CommentResp(i, tokens) ==
    IF i = 1 THEN FindElement(ButtonTexts(tokens))
    ELSE IF i = 2
    THEN ExecuteScript({None} \cup {t \in ButtonTexts(tokens) : DigitsOnly(t, 0)})
    ELSE IF i \in {3, 4} THEN FindElements(ButtonTexts(tokens))
    ELSE IF i = 5
    THEN ExecuteScript({None} \cup
            {FirstDigitRun(t) : t \in {x \in ButtonTexts(tokens) : DigitsIn(x) # <<>>}})
    ELSE FindElements(CountTexts(tokens, Plural.comments))

CommentStrategy(i, r) ==
    IF ~r.ok THEN Declined
    ELSE IF i = 1 THEN InTry(DigitElement(r.val[1], 0))
    ELSE IF i \in {2, 5}
    THEN IF r.val = None \/ r.val = <<>> THEN Declined
         ELSE Took(r.val, "script", r.val)
    ELSE IF i = 3
    THEN FirstSettled([j \in 1..Len(r.val) |-> DigitElement(r.val[j], 0)])
    ELSE IF i = 4
    THEN FirstSettled([j \in 1..Len(r.val) |-> CommentButton(r.val[j])])
    ELSE FirstSettled([j \in 1..Len(r.val) |->
                            CountElement(r.val[j], Singular.comments, Singular.comments)])

\* ---- extract_share_count: 1..3 the selectors, 4 the share buttons,
\* 5 the script
NShares == 5

ShareResp(i, tokens) ==
    IF i \in {1, 2, 3} THEN FindElements(CountTexts(tokens, Plural.shares))
    ELSE IF i = 4 THEN FindElements(ButtonTexts(tokens))
    ELSE ExecuteScript({None} \cup
            {Strip(t) : t \in {x \in CountTexts(tokens, Plural.shares) : JsCountTest(x, Singular.shares)}})

ShareStrategy(i, r) ==
    IF i \in {1, 2, 3}
    THEN IF ~r.ok THEN Declined
         ELSE FirstSettled([j \in 1..Len(r.val) |->
                                CountElement(r.val[j], Plural.shares, Singular.shares)])
    ELSE IF i = 4
    THEN IF ~r.ok THEN Declined
         ELSE FirstSettled([j \in 1..Len(r.val) |-> DigitElement(r.val[j], 0)])
    ELSE IF ~r.ok THEN Abort(Zero)
         ELSE IF r.val = None THEN Declined
         ELSE IF CountSearch(r.val, Singular.shares) = None THEN Declined
         ELSE NoTry(NormalizeCount(CountSearch(r.val, Singular.shares)))

(***************************************************************************)
(* Dates.  A date text is a sequence of tokens: a word or a month name is  *)
(* a one-element token (<<"January">>), a number is spelled digit by digit *)
(* (<<"0", "1">>), a punctuation sign stands alone (<<",">>).  The three   *)
(* regular expressions of extract_post_date are matched token by token.    *)
(***************************************************************************)
MonthNames ==
    { <<"January">>, <<"February">>, <<"March">>, <<"April">>,
      <<"May">>, <<"June">>, <<"July">>, <<"August">>,
      <<"September">>, <<"October">>, <<"November">>, <<"December">>,
      <<"Jan">>, <<"Feb">>, <<"Mar">>, <<"Apr">>,
      <<"Jun">>, <<"Jul">>, <<"Aug">>, <<"Sep">>,
      <<"Oct">>, <<"Nov">>, <<"Dec">> }

\* month_map.get(month, 1)
MonthNum(tok) ==
    CASE tok = <<"January">> -> 1
      [] tok = <<"February">> -> 2
      [] tok = <<"March">> -> 3
      [] tok = <<"April">> -> 4
      [] tok = <<"May">> -> 5
      [] tok = <<"June">> -> 6
      [] tok = <<"July">> -> 7
      [] tok = <<"August">> -> 8
      [] tok = <<"September">> -> 9
      [] tok = <<"October">> -> 10
      [] tok = <<"November">> -> 11
      [] tok = <<"December">> -> 12
      [] tok = <<"Jan">> -> 1
      [] tok = <<"Feb">> -> 2
      [] tok = <<"Mar">> -> 3
      [] tok = <<"Apr">> -> 4
      [] tok = <<"Jun">> -> 6
      [] tok = <<"Jul">> -> 7
      [] tok = <<"Aug">> -> 8
      [] tok = <<"Sep">> -> 9
      [] tok = <<"Oct">> -> 10
      [] tok = <<"Nov">> -> 11
      [] tok = <<"Dec">> -> 12
      [] OTHER -> 1

Comma == <<",">>
Colon == <<":">>
At == <<"at">>
\* ([APM]{2})
AmPm == { <<"AM">>, <<"PM">>, <<"AA">>, <<"AP">>, <<"MA">>, <<"MM">>,
          <<"MP">>, <<"PA">>, <<"PP">> }

\* \d{a,b} as a whole token
Num(tok, a, b) == IsDigit(tok) /\ Len(tok) >= a /\ Len(tok) <= b

\* (\d{4}) at the end of a pattern: the first four digits of a number
Year4(tok) == IsDigit(tok) /\ Len(tok) >= 4

\* (\d{1,2}) at the start of a pattern: the last two digits of a number
Day2(tok) == IF Len(tok) <= 2 THEN tok ELSE SubSeq(tok, Len(tok) - 1, Len(tok))

\* pattern 1 at token i: Month D, YYYY at H:MM[:SS] AP
TimedAt(t, i) ==
    /\ i + 8 <= Len(t)
    /\ t[i] \in MonthNames
    /\ Num(t[i + 1], 1, 2)
    /\ t[i + 2] = Comma
    /\ Num(t[i + 3], 4, 4)
    /\ t[i + 4] = At
    /\ Num(t[i + 5], 1, 2)
    /\ t[i + 6] = Colon
    /\ Num(t[i + 7], 2, 2)
    /\ \/ t[i + 8] \in AmPm
       \/ /\ i + 10 <= Len(t)
          /\ t[i + 8] = Colon
          /\ Num(t[i + 9], 2, 2)
          /\ t[i + 10] \in AmPm

TimedHasSeconds(t, i) == t[i + 8] = Colon

TimedLen(t, i) == IF TimedHasSeconds(t, i) THEN 11 ELSE 9

\* the groups of a pattern 1 match (group 6 is <<>> without seconds)
TimedGroups(t, i) ==
    [month  |-> t[i],
     day    |-> t[i + 1],
     year   |-> t[i + 3],
     hour   |-> t[i + 5],
     minute |-> t[i + 7],
     second |-> IF TimedHasSeconds(t, i) THEN t[i + 9] ELSE <<>>,
     ampm   |-> IF TimedHasSeconds(t, i) THEN t[i + 10] ELSE t[i + 8]]

\* pattern 2 at token i: Month D, YYYY
SimpleAt(t, i) ==
    /\ i + 3 <= Len(t)
    /\ t[i] \in MonthNames
    /\ Num(t[i + 1], 1, 2)
    /\ t[i + 2] = Comma
    /\ Year4(t[i + 3])

SimpleGroups(t, i) ==
    [month |-> t[i], day |-> t[i + 1], year |-> SubSeq(t[i + 3], 1, 4)]

\* pattern 3 at token i: D Month[,] YYYY
AltAt(t, i) ==
    /\ i + 2 <= Len(t)
    /\ IsDigit(t[i])
    /\ t[i + 1] \in MonthNames
    /\ \/ Year4(t[i + 2])
       \/ /\ i + 3 <= Len(t)
          /\ t[i + 2] = Comma
          /\ Year4(t[i + 3])

AltLen(t, i) == IF t[i + 2] = Comma THEN 4 ELSE 3

AltGroups(t, i) ==
    [month |-> t[i + 1], day |-> Day2(t[i]),
     year |-> SubSeq(t[i + AltLen(t, i) - 1], 1, 4)]

\* re.search: the index of the leftmost match (0: none)
FirstTimed(t) ==
    IF \E i \in 1..Len(t) : TimedAt(t, i)
    THEN CHOOSE i \in 1..Len(t) :
            TimedAt(t, i) /\ \A j \in 1..(i - 1) : ~TimedAt(t, j)
    ELSE 0

FirstSimple(t) ==
    IF \E i \in 1..Len(t) : SimpleAt(t, i)
    THEN CHOOSE i \in 1..Len(t) :
            SimpleAt(t, i) /\ \A j \in 1..(i - 1) : ~SimpleAt(t, j)
    ELSE 0

FirstAlt(t) ==
    IF \E i \in 1..Len(t) : AltAt(t, i)
    THEN CHOOSE i \in 1..Len(t) :
            AltAt(t, i) /\ \A j \in 1..(i - 1) : ~AltAt(t, j)
    ELSE 0

\* the tokens of a text joined into the characters of the text
RECURSIVE Render(_)
Render(t) ==
    IF t = <<>> THEN <<>>
    ELSE IF Len(t) = 1 THEN t[1]
    ELSE t[1]
         \o (IF t[2] \in {Comma, Colon} \/ t[1] = Colon THEN <<>> ELSE <<Blank>>)
         \o Render(Tail(t))

\* datetime.datetime(year, month, day, hour, minute, second) raises
LeapYear(y) == (y % 4 = 0 /\ y % 100 # 0) \/ y % 400 = 0

DaysIn(y, m) ==
    IF m = 2 THEN (IF LeapYear(y) THEN 29 ELSE 28)
    ELSE IF m \in {4, 6, 9, 11} THEN 30 ELSE 31

ValidDateTime(y, m, d, h, mi, sec) ==
    /\ y \in 1..9999
    /\ m \in 1..12
    /\ d \in 1..DaysIn(y, m)
    /\ h \in 0..23
    /\ mi \in 0..59
    /\ sec \in 0..59

\* the hour of an AM/PM time on the 24-hour clock
\* an AM/PM adjustment that adds 12 to every PM hour, noon included
Hour24NoNoon(hour, ampm) ==
    IF ampm = <<"PM">> THEN hour + 12
    ELSE IF ampm = <<"AM">> /\ hour = 12 THEN 0
    ELSE hour

\* lines 159-162 and 362-365: the AM/PM adjustment
Hour24(hour, ampm) ==
    IF ampm = <<"PM">> /\ hour < 12 THEN hour + 12
    ELSE IF ampm = <<"AM">> /\ hour = 12 THEN 0
    ELSE hour

NoDates == <<>>

\* one entry of all_found_dates / all_date_objects, or none when datetime
\* raised
Candidate(y, m, d, h, mi, sec, text) ==
    IF ValidDateTime(y, m, d, h, mi, sec)
    THEN << [ts |-> <<y, m, d, h, mi, sec>>, text |-> text] >>
    ELSE NoDates

TimedCandidate(g, text) ==
    Candidate(IntOf(g.year), MonthNum(g.month), IntOf(g.day),
              Hour24(IntOf(g.hour), g.ampm), IntOf(g.minute),
              IF g.second = <<>> THEN 0 ELSE IntOf(g.second), text)

MidnightCandidate(g, text) ==
    Candidate(IntOf(g.year), MonthNum(g.month), IntOf(g.day), 0, 0, 0, text)

\* f"{month} {day}, {year}"
SimpleText(month, day, year) ==
    month \o <<Blank>> \o day \o <<",", Blank>> \o year

\* f"{month} {day}, {year} at {hour}:{minute}[:{second}] {ampm}"
TimedText(month, day, year, g) ==
    SimpleText(month, day, year) \o <<Blank, "at", Blank>> \o g.hour
    \o <<":">> \o g.minute
    \o (IF g.second = <<>> THEN <<>> ELSE <<":">> \o g.second)
    \o <<Blank>> \o g.ampm

\* lines 138-237: what one span of the log view adds to all_found_dates
SpanCandidates(span_text) ==
    IF FirstTimed(span_text) # 0
    THEN TimedCandidate(TimedGroups(span_text, FirstTimed(span_text)),
                        Render(span_text))
    ELSE IF FirstSimple(span_text) # 0
    THEN LET g == SimpleGroups(span_text, FirstSimple(span_text))
         IN  MidnightCandidate(g, SimpleText(g.month, g.day, g.year))
    ELSE IF FirstAlt(span_text) # 0
    THEN LET g == AltGroups(span_text, FirstAlt(span_text))
         IN  MidnightCandidate(g, SimpleText(g.month, g.day, g.year))
    ELSE NoDates

RECURSIVE LogCandidates(_)
\* lines 136-237: all_found_dates after the loop over date_spans
LogCandidates(spans) ==
    IF spans = <<>> THEN NoDates
    ELSE SpanCandidates(Head(spans)) \o LogCandidates(Tail(spans))

RECURSIVE FindAllTimed(_, _)
\* re.findall of pattern 1 from token i on: the matches' candidates
FindAllTimed(t, i) ==
    IF i > Len(t) THEN NoDates
    ELSE IF TimedAt(t, i)
    THEN LET g == TimedGroups(t, i)
         IN  TimedCandidate(g, TimedText(g.month, StrOf(IntOf(g.day)),
                                         StrOf(IntOf(g.year)), g))
             \o FindAllTimed(t, i + TimedLen(t, i))
    ELSE FindAllTimed(t, i + 1)

RECURSIVE FindAllSimple(_, _)
\* re.findall of pattern 2 from token i on
FindAllSimple(t, i) ==
    IF i > Len(t) THEN NoDates
    ELSE IF SimpleAt(t, i)
    THEN LET g == SimpleGroups(t, i)
         IN  MidnightCandidate(g, SimpleText(g.month, StrOf(IntOf(g.day)),
                                             StrOf(IntOf(g.year))))
             \o FindAllSimple(t, i + 4)
    ELSE FindAllSimple(t, i + 1)

RECURSIVE FindAllAlt(_, _)
\* re.findall of pattern 3 from token i on
FindAllAlt(t, i) ==
    IF i > Len(t) THEN NoDates
    ELSE IF AltAt(t, i)
    THEN LET g == AltGroups(t, i)
         IN  MidnightCandidate(g, SimpleText(g.month, StrOf(IntOf(g.day)),
                                             StrOf(IntOf(g.year))))
             \o FindAllAlt(t, i + AltLen(t, i))
    ELSE FindAllAlt(t, i + 1)

\* lines 349-409: all_date_objects after the loop over the three patterns
SourceCandidates(source) ==
    FindAllTimed(source, 1) \o FindAllSimple(source, 1) \o FindAllAlt(source, 1)

\* the timestamp a is before the timestamp b
RECURSIVE TsLess(_, _)
TsLess(a, b) ==
    IF a = <<>> THEN FALSE
    ELSE IF Head(a) # Head(b) THEN Head(a) < Head(b)
    ELSE TsLess(Tail(a), Tail(b))

\* the last of the entries with the least timestamp
EarliestLast(dates) ==
    dates[CHOOSE i \in 1..Len(dates) :
            /\ \A j \in 1..Len(dates) : ~TsLess(dates[j].ts, dates[i].ts)
            /\ \A j \in (i + 1)..Len(dates) : TsLess(dates[i].ts, dates[j].ts)]

\* list.sort(key=lambda x: x[0]) and [0]: the first of the entries with the
\* least timestamp (the sort is stable)
Earliest(dates) ==
    dates[CHOOSE i \in 1..Len(dates) :
            /\ \A j \in 1..Len(dates) : ~TsLess(dates[j].ts, dates[i].ts)
            /\ \A j \in 1..(i - 1) : TsLess(dates[i].ts, dates[j].ts)]

(***************************************************************************)
(* The date texts the log view and the page source may hold.               *)
(***************************************************************************)
Y2023 == <<"2", "0", "2", "3">>
Y2024 == <<"2", "0", "2", "4">>

\* "January 1, 2023 at 8:00 AM"
TimedJan1 ==
    << <<"January">>, <<"1">>, Comma, Y2023, At, <<"8">>, Colon, <<"0", "0">>, <<"AM">> >>
\* "January 5, 2023"
SimpleJan5 == << <<"January">>, <<"5">>, Comma, Y2023 >>
\* "Edited Jan 01, 2023 at 12:30:15 PM"
EditedJan1 ==
    << <<"Edited">>, <<"Jan">>, <<"0", "1">>, Comma, Y2023, At, <<"1", "2">>, Colon,
       <<"3", "0">>, Colon, <<"1", "5">>, <<"PM">> >>
\* "3 Feb 2024"
AltFeb3 == << <<"3">>, <<"Feb">>, Y2024 >>
\* "February 30, 2023": no such day
BadFeb30 == << <<"February">>, <<"3", "0">>, Comma, Y2023 >>
\* "Upvote": no date
NoDateText == << <<"Upvote">> >>
\* "Error": one of the access restriction indicators
ErrorPage == << <<"Error">> >>

SpanTexts == {TimedJan1, SimpleJan5, EditedJan1, BadFeb30, NoDateText}
SourceFrags == {TimedJan1, SimpleJan5, AltFeb3, ErrorPage}

RECURSIVE Concat(_)
Concat(frags) == IF frags = <<>> THEN <<>> ELSE Head(frags) \o Concat(Tail(frags))

\* what execute_script(date_spans_js) may answer with
SpanLists == SeqsUpTo(SpanTexts, MaxSpans)
\* what driver.page_source may hold on the log view
Sources == {Concat(f) : f \in SeqsUpTo(SourceFrags, MaxSrcFrags)}
\* what execute_script(find_creation_js) may answer with: null, or the
\* dateText of the marker found
CreationTexts == {None, SimpleJan5, EditedJan1, NoDateText}

\* the smaller domains used while a whole answer is scraped
FewSpanLists == { <<>>, <<TimedJan1>>, <<NoDateText>>, <<SimpleJan5, TimedJan1>> }
FewSources == { <<>>, SimpleJan5, ErrorPage }
FewCreationTexts == {None, SimpleJan5}

(***************************************************************************)
(* extract_post_date(driver, answer_url), called with answer_url = url.    *)
(***************************************************************************)
\* lines 68-71
LogUrl(answer_url) ==
    IF ~EndsWith(answer_url, LogTail) /\ ~Contains(LogMid, answer_url)
    THEN answer_url \o LogTail
    ELSE answer_url

\* lines 82-91: the list login_indicators; its third entry is the value of
\* an expression, a bool, the others are strings
LoginIndicators(current_url) ==
    << [str |-> TRUE,  text |-> << <<"Something went wrong">> >>],
       [str |-> TRUE,  text |-> << <<"You need to login to view this page">> >>],
       [str |-> FALSE, text |-> << <<IF Contains(<<"l", "o", "g", "i", "n">>, Lower(current_url))
                                      THEN "True" ELSE "False">> >>],
       [str |-> TRUE,  text |-> << <<"Log in to Quora">> >>],
       [str |-> TRUE,  text |-> << <<"Page not found">> >>],
       [str |-> TRUE,  text |-> << <<"This content isn't available right now">> >>],
       [str |-> TRUE,  text |-> << <<"Error">> >>],
       [str |-> TRUE,  text |-> << <<"The page you requested was not found">> >>] >>

\* lines 93-96
Restricted(source, current_url) ==
    \E i \in 1..Len(LoginIndicators(current_url)) :
        /\ LoginIndicators(current_url)[i].str
        /\ Contains(LoginIndicators(current_url)[i].text, source)

\* system_now.strftime("%B %d, %Y")
Today == <<"November", Blank, "0", "4", ",", Blank, "2", "0", "2", "6">>

\* the approximation sentinel, lines 435-437
Approx == <<"Approx.", Blank>> \o Today

\* extract_post_date returns v
PdReturn(v) ==
    /\ pd_out' = Value(v)
    /\ pc' = "pd_ret"

\* an exception leaves extract_post_date
PdRaise(e) ==
    /\ pd_out' = [kind |-> "raised", val |-> e]
    /\ pc' = "pd_raise"

pdFrame == <<batchVars, mainVars, codeVars, url, page, is_deleted, author_name, post_date, stats, result,
             invoked, how, strat>>

\* lines 63-75: remember the current URL, navigate to the log view
PdStart ==
    /\ pc = "post_date"
    /\ \/ \E e \in Exceptions :                \* driver.current_url raises
            /\ PdRaise(e)
            /\ UNCHANGED <<cur, last_get, original_url>>
       \/ \E e \in Exceptions :                \* driver.get(log_url) raises
            /\ original_url' = cur
            /\ last_get' = (LogUrl(url))
            /\ cur' \in AfterFailedGet(LogUrl(url))
            /\ PdRaise(e)
       \/ /\ original_url' = cur
          /\ last_get' = (LogUrl(url))
          /\ cur' \in AfterGetLog(LogUrl(url))
          /\ pc' = "pd_source"
          /\ UNCHANGED pd_out
    /\ UNCHANGED <<pdFrame, page_source, restricted_access, date_spans,
                   all_found_dates, all_date_objects>>

\* lines 77-98: read the page source, look for the restriction indicators
PdReadSource(sources) ==
    /\ pc = "pd_source"
    /\ \/ \E e \in Exceptions :     \* driver.page_source or driver.current_url raises
            /\ PdRaise(e)
            /\ UNCHANGED <<page_source, restricted_access>>
       \/ \E src \in sources :
            /\ page_source' = src
            /\ restricted_access' = Restricted(src, cur)
            /\ pc' = IF Restricted(src, cur) THEN "pd_scan_source" ELSE "pd_spans"
            /\ UNCHANGED pd_out
    /\ UNCHANGED <<pdFrame, cur, last_get, original_url, date_spans,
                   all_found_dates, all_date_objects>>

\* a return of v from the log view without the navigation back
BackThenReturnNoGet(v, onRaise) ==
    /\ PdReturn(v)
    /\ UNCHANGED <<cur, last_get>>

\* driver.get(original_url) inside a try block of extract_post_date: the
\* navigation, and then either the return of v or, when it raised, the
\* continuation at pc value onRaise
BackThenReturn(v, onRaise) ==
    /\ last_get' = (original_url)
    /\ \/ /\ cur' \in AfterGet(original_url)
          /\ PdReturn(v)
       \/ /\ cur' \in AfterFailedGet(original_url)
          /\ pc' = onRaise
          /\ UNCHANGED pd_out

\* lines 99-253 and 328-329: the spans of the log view, their dates, the
\* earliest of them
PdSpans(spanLists) ==
    /\ pc = "pd_spans"
    /\ \/ /\ pc' = "pd_scan_source"          \* execute_script raises
          /\ UNCHANGED <<date_spans, all_found_dates, cur, last_get, pd_out>>
       \/ \E spans \in spanLists :
            /\ date_spans' = spans
            /\ all_found_dates' = LogCandidates(spans)
            /\ IF spans = <<>>
               THEN /\ pc' = "pd_scan_source"
                    /\ UNCHANGED <<cur, last_get, pd_out>>
               ELSE IF LogCandidates(spans) # NoDates
               THEN BackThenReturn(Earliest(LogCandidates(spans)).text,
                                   "pd_scan_source")
               ELSE /\ pc' = "pd_creation"
                    /\ UNCHANGED <<cur, last_get, pd_out>>
    /\ UNCHANGED <<pdFrame, original_url, page_source, restricted_access,
                   all_date_objects>>

\* lines 309-318: the date of the creation marker's dateText
CreationDate(dateText) ==
    IF FirstSimple(dateText) = 0 THEN None
    ELSE IF TimedAt(dateText, FirstSimple(dateText))
    THEN LET g == TimedGroups(dateText, FirstSimple(dateText))
         IN  TimedText(g.month, g.day, g.year, g)
    ELSE LET g == SimpleGroups(dateText, FirstSimple(dateText))
         IN  SimpleText(g.month, g.day, g.year)

\* lines 255-327: the creation marker
PdCreation(texts) ==
    /\ pc = "pd_creation"
    /\ \/ /\ pc' = "pd_scan_source"          \* execute_script raises
          /\ UNCHANGED <<cur, last_get, pd_out>>
       \/ \E dateText \in texts :
            IF dateText = None \/ CreationDate(dateText) = None
            THEN /\ pc' = "pd_scan_source"
                 /\ UNCHANGED <<cur, last_get, pd_out>>
            ELSE BackThenReturn(CreationDate(dateText), "pd_scan_source")
    /\ UNCHANGED <<pdFrame, original_url, page_source, restricted_access,
                   date_spans, all_found_dates, all_date_objects>>

\* lines 331-427: the dates of the page source, the earliest of them
PdScanSource ==
    /\ pc = "pd_scan_source"
    /\ all_date_objects' = SourceCandidates(page_source)
    /\ IF SourceCandidates(page_source) # NoDates
       THEN BackThenReturn(Earliest(SourceCandidates(page_source)).text,
                           "pd_fallback")
       ELSE /\ pc' = "pd_fallback"
            /\ UNCHANGED <<cur, last_get, pd_out>>
    /\ UNCHANGED <<pdFrame, original_url, page_source, restricted_access,
                   date_spans, all_found_dates>>

\* lines 429-437: navigate back, return the approximation
PdFallback ==
    /\ pc = "pd_fallback"
    /\ last_get' = (original_url)
    /\ \/ \E e \in Exceptions :
            /\ cur' \in AfterFailedGet(original_url)
            /\ PdRaise(e)
       \/ /\ cur' \in AfterGet(original_url)
          /\ PdReturn(Approx)
    /\ UNCHANGED <<pdFrame, original_url, page_source, restricted_access,
                   date_spans, all_found_dates, all_date_objects>>

(***************************************************************************)
(* scrape_quora_answer.                                                    *)
(***************************************************************************)
Now == <<"<now>">>

pdLocals == <<original_url, page_source, restricted_access, date_spans,
              all_found_dates, all_date_objects, pd_out>>
UnsetLocals ==
    /\ original_url' = None
    /\ page_source' = None
    /\ restricted_access' = FALSE
    /\ date_spans' = <<>>
    /\ all_found_dates' = NoDates
    /\ all_date_objects' = NoDates
    /\ pd_out' = Declined

\* the call of the extractor at pc value next, if it is one
Call(next) ==
    /\ pc' = next
    /\ strat' = 1
    /\ invoked' = invoked \cup ({next} \cap {"author", "post_date", "views",
                                             "upvotes", "comments", "shares"})

How(f, o) == [field |-> f, outcome |-> o, at |-> 0, via |-> "none", src |-> <<>>]

\* the extractor of field f returned the value of outcome o, which its
\* strategy number strat produced
Hit(f, o) ==
    [field |-> f, outcome |-> "hit", at |-> strat, via |-> o.via, src |-> o.src]

\* scrape_quora_answer called on its own, outside process_quora_urls
NoBatch ==
    /\ quora_urls = <<>>
    /\ url_index = 0
    /\ results = <<>>
    /\ sheet = {}
    /\ waited = FALSE

\* main is not running
NoMain ==
    /\ main_pc = "idle"
    /\ args = [login |-> FALSE, url |-> None]
    /\ driver_created = FALSE
    /\ quit_calls = 0

\* get_2fa_code_from_sheet is not running
NoCode ==
    /\ max_attempts = 0
    /\ attempt = 0
    /\ a1 = None
    /\ code_cell = None
    /\ code = None
    /\ ops = <<>>

ZeroStats == [views |-> Zero, upvotes |-> Zero, comments |-> Zero, shares |-> Zero]

Init ==
    /\ url \in FewUrls
    /\ pc = "start"
    /\ cur = BlankUrl
    /\ page = [loaded |-> FALSE, deleted |-> FALSE]
    /\ is_deleted = FALSE
    /\ author_name = None
    /\ post_date = None
    /\ stats = [views |-> None, upvotes |-> None, comments |-> None, shares |-> None]
    /\ result = <<>>
    /\ invoked = {}
    /\ how = How("none", "pending")
    /\ last_get = None
    /\ original_url = None
    /\ page_source = None
    /\ restricted_access = FALSE
    /\ date_spans = <<>>
    /\ all_found_dates = NoDates
    /\ all_date_objects = NoDates
    /\ pd_out = Declined
    /\ strat = 1
    /\ NoBatch
    /\ NoMain
    /\ NoCode

\* an error record that drops the text of the exception
ErrorRecordNoText(e) ==
    [answer_url |-> url,
     base_url   |-> extract_base_url(url),
     author     |-> ErrorText,
     post_date  |-> ErrorText,
     stats      |-> ZeroStats,
     scraped_at |-> Now,
     error      |-> <<>>]

\* lines 1021-1034: the record of the except clause
ErrorRecord(e) ==
    [answer_url |-> url,
     base_url   |-> extract_base_url(url),
     author     |-> ErrorText,
     post_date  |-> ErrorText,
     stats      |-> ZeroStats,
     scraped_at |-> Now,
     error      |-> e]

\* an except clause that handles timeouts only: any other exception leaves
\* scrape_quora_answer
ScrapeExceptTimeout(e) ==
    IF e = <<"Message: ", "timeout">>
    THEN /\ result' = Append(result, ErrorRecord(e))
         /\ pc' = "done"
    ELSE /\ pc' = "raised"
         /\ UNCHANGED result

\* lines 1019-1034: except Exception as e: return the error record
ScrapeExcept(e) ==
    /\ result' = Append(result, ErrorRecord(e))
    /\ pc' = "done"

\* lines 925-941: navigate, wait for the body, read the URL and the title
Navigate ==
    /\ pc = "start"
    /\ last_get' = (url)
    /\ \/ \E e \in Exceptions :                 \* driver.get(url) raises
            /\ cur' \in AfterFailedGet(url)
            /\ ScrapeExcept(e)
            /\ UNCHANGED page
       \/ \E e \in Exceptions :                 \* the wait for the body raises
            /\ cur' \in AfterGet(url)
            /\ ScrapeExcept(e)
            /\ UNCHANGED page
       \/ \E e \in Exceptions :                 \* current_url or title raises
            /\ cur' \in AfterGet(url)
            /\ ScrapeExcept(e)
            /\ page' \in [loaded : {TRUE}, deleted : BOOLEAN]
       \/ /\ cur' \in AfterGet(url)
          /\ page' \in [loaded : {TRUE}, deleted : BOOLEAN]
          /\ pc' = "deletion"
          /\ UNCHANGED result
    /\ UNCHANGED <<url, is_deleted, author_name, post_date, stats, invoked,
                   how, pdLocals, strat>>
    /\ UNCHANGED <<batchVars, mainVars, codeVars>>

NIndicators == 3

\* the deletion indicators are queried in order until one is found; a raise
\* leaves the try block with is_deleted still False (lines 944-959)
DeletionFound(shown, failAt) ==
    /\ page.deleted
    /\ ~(failAt \in 1..shown)

\* lines 943-977: the deletion check, and the branch on its result up to
\* the first extractor call
CheckDeleted ==
    /\ pc = "deletion"
    /\ \E shown \in 1..NIndicators, failAt \in 0..NIndicators :
        /\ is_deleted' = DeletionFound(shown, failAt)
        /\ IF DeletionFound(shown, failAt)
           THEN /\ author_name' = PostDeleted
                /\ stats' = ZeroStats
                /\ Call("post_date")
           ELSE /\ Call("author")
                /\ UNCHANGED <<author_name, stats>>
    /\ UNCHANGED <<url, cur, page, post_date, result, how, last_get, pdLocals>>
    /\ UNCHANGED <<batchVars, mainVars, codeVars>>

\* line 972: author_name = extract_author_name(driver), one strategy a step
ExtractAuthorName(texts, next) ==
    /\ pc = "author"
    /\ \E r \in AuthorResp(strat, texts) :
        LET o == AuthorStrategy(strat, r) IN
        IF o.kind = "declined"
        THEN /\ strat' = strat + 1
             /\ UNCHANGED <<author_name, how, invoked, pc>>
        ELSE /\ author_name' = o.val
             /\ how' = IF o.kind = "abort" THEN How("author", "aborted")
                        ELSE IF o.val = NameNotFound /\ strat = NAuthor
                        THEN How("author", "exhausted")
                        ELSE Hit("author", Took(o.val, "name", o.val))
             /\ Call(next)
    /\ UNCHANGED <<url, cur, page, is_deleted, post_date, stats, result,
                   last_get, pdLocals>>
    /\ UNCHANGED <<batchVars, mainVars, codeVars>>

\* a count extractor without its outer try block: a raise outside the inner
\* try blocks leaves the extractor
CountStepNoOuterTry(f, n, o, next) ==
    IF o.kind = "value"
    THEN /\ stats' = [stats EXCEPT ![f] = o.val]
         /\ how' = Hit(f, o)
         /\ Call(next)
    ELSE IF o.kind = "abort"
    THEN /\ pc' = "raised"
         /\ UNCHANGED <<stats, how, strat, invoked>>
    ELSE IF strat = n
    THEN /\ stats' = [stats EXCEPT ![f] = Zero]
         /\ how' = How(f, "exhausted")
         /\ Call(next)
    ELSE /\ strat' = strat + 1
         /\ UNCHANGED <<stats, how, pc, invoked>>

\* a count extractor that notes the value of a strategy and goes on to
\* query the later strategies
CountStepGoesOn(f, n, o, next) ==
    IF o.kind = "value" /\ strat < n
    THEN /\ stats' = [stats EXCEPT ![f] = o.val]
         /\ strat' = strat + 1
         /\ UNCHANGED <<how, pc, invoked>>
    ELSE IF o.kind = "value"
    THEN /\ stats' = [stats EXCEPT ![f] = o.val]
         /\ how' = Hit(f, o)
         /\ Call(next)
    ELSE IF o.kind = "abort" \/ strat = n
    THEN /\ how' = How(f, IF o.kind = "abort" THEN "aborted" ELSE "exhausted")
         /\ Call(next)
         /\ UNCHANGED stats
    ELSE /\ strat' = strat + 1
         /\ UNCHANGED <<stats, how, pc, invoked>>

\* one strategy of a count extractor: o is what strategy strat of n made of
\* the renderer's answer; the extractor returns the value, or "0" when the
\* last strategy declined or a raise reached its own except clause
CountStep(f, n, o, next) ==
    IF o.kind = "value"
    THEN /\ stats' = [stats EXCEPT ![f] = o.val]
         /\ how' = Hit(f, o)
         /\ Call(next)
    ELSE IF o.kind = "abort" \/ strat = n
    THEN /\ stats' = [stats EXCEPT ![f] = Zero]
         /\ how' = How(f, IF o.kind = "abort" THEN "aborted" ELSE "exhausted")
         /\ Call(next)
    ELSE /\ strat' = strat + 1
         /\ UNCHANGED <<stats, how, pc, invoked>>

countFrame == <<batchVars, mainVars, codeVars, url, cur, page, is_deleted, author_name, post_date, result,
                last_get, pdLocals>>

\* line 974
ExtractViewCount(tokens, next) ==
    /\ pc = "views"
    /\ \E r \in ViewResp(strat, tokens) :
        CountStep("views", NViews, ViewStrategy(strat, r), next)
    /\ UNCHANGED countFrame

\* line 975
ExtractUpvoteCount(tokens, next) ==
    /\ pc = "upvotes"
    /\ \E r \in UpvoteResp(strat, tokens) :
        CountStep("upvotes", NUpvotes, UpvoteStrategy(strat, r), next)
    /\ UNCHANGED countFrame

\* line 976
ExtractCommentCount(tokens, next) ==
    /\ pc = "comments"
    /\ \E r \in CommentResp(strat, tokens) :
        CountStep("comments", NComments, CommentStrategy(strat, r), next)
    /\ UNCHANGED countFrame

\* line 977
ExtractShareCount(tokens, next) ==
    /\ pc = "shares"
    /\ \E r \in ShareResp(strat, tokens) :
        CountStep("shares", NShares, ShareStrategy(strat, r), next)
    /\ UNCHANGED countFrame

\* lines 979-1017: compile the record and return it
Compile ==
    /\ pc = "compile"
    /\ result' = Append(result,
            [answer_url |-> url,
             base_url   |-> extract_base_url(url),
             author     |-> author_name,
             post_date  |-> post_date,
             stats      |-> stats,
             scraped_at |-> Now,
             is_deleted |-> is_deleted])
    /\ pc' = "done"
    /\ UNCHANGED <<url, cur, page, is_deleted, author_name, post_date, stats,
                   invoked, how, last_get, pdLocals, strat>>
    /\ UNCHANGED <<batchVars, mainVars, codeVars>>

\* lines 969 and 973: post_date = extract_post_date(driver, url) returned;
\* the frame of extract_post_date is gone
PostDateReturned ==
    /\ pc = "pd_ret"
    /\ post_date' = pd_out.val
    /\ UnsetLocals
    /\ IF is_deleted THEN Call("compile") ELSE Call("views")
    /\ UNCHANGED <<url, cur, page, is_deleted, author_name, stats, result,
                   how, last_get>>
    /\ UNCHANGED <<batchVars, mainVars, codeVars>>

\* lines 969 and 973: extract_post_date raised, and the except clause of
\* scrape_quora_answer takes over
PostDateRaised ==
    /\ pc = "pd_raise"
    /\ ScrapeExcept(pd_out.val)
    /\ UnsetLocals
    /\ UNCHANGED <<url, cur, page, is_deleted, author_name, post_date, stats,
                   invoked, how, last_get, strat>>
    /\ UNCHANGED <<batchVars, mainVars, codeVars>>

Next ==
    \/ Navigate
    \/ CheckDeleted
    \/ ExtractAuthorName(FewAuthorTexts, "post_date")
    \/ PdStart
    \/ PdReadSource(FewSources)
    \/ PdSpans(FewSpanLists)
    \/ PdCreation(FewCreationTexts)
    \/ PdScanSource
    \/ PdFallback
    \/ PostDateReturned
    \/ PostDateRaised
    \/ ExtractViewCount(FewTokens, "upvotes")
    \/ ExtractUpvoteCount(FewTokens, "comments")
    \/ ExtractCommentCount(FewTokens, "shares")
    \/ ExtractShareCount(FewTokens, "compile")
    \/ Compile

Spec == Init /\ [][Next]_vars

(***************************************************************************)
(* One extractor called on a loaded page, with the full range of texts.    *)
(***************************************************************************)
Extractors == {"author", "views", "upvotes", "comments", "shares"}

Loaded(at, urls, curs) ==
    /\ url \in urls
    /\ pc = at
    /\ cur \in {url} \cup curs
    /\ page = [loaded |-> TRUE, deleted |-> FALSE]
    /\ is_deleted = FALSE
    /\ author_name = None
    /\ post_date = None
    /\ stats = [views |-> None, upvotes |-> None, comments |-> None, shares |-> None]
    /\ result = <<>>
    /\ invoked = {at}
    /\ how = How("none", "pending")
    /\ last_get = url
    /\ original_url = None
    /\ page_source = None
    /\ restricted_access = FALSE
    /\ date_spans = <<>>
    /\ all_found_dates = NoDates
    /\ all_date_objects = NoDates
    /\ pd_out = Declined
    /\ strat = 1
    /\ NoBatch
    /\ NoMain
    /\ NoCode

InitExtract ==
    \E at \in Extractors :
        IF at = "author" THEN Loaded(at, Urls, {LoginUrl, ShortSlugUrl})
        ELSE Loaded(at, {AnswerUrl}, {})

NextExtract ==
    \/ ExtractAuthorName(AuthorTexts, "returned")
    \/ ExtractViewCount(CountTokens, "returned")
    \/ ExtractUpvoteCount(CountTokens, "returned")
    \/ ExtractCommentCount(CountTokens, "returned")
    \/ ExtractShareCount(CountTokens, "returned")

SpecExtract == InitExtract /\ [][NextExtract]_vars

(***************************************************************************)
(* extract_post_date called on a loaded page, with the full range of       *)
(* spans, page sources and creation markers.                               *)
(***************************************************************************)
InitDate == Loaded("post_date", {AnswerUrl, AnswerLogUrl}, {})

NextDate ==
    \/ PdStart
    \/ PdReadSource(Sources)
    \/ PdSpans(SpanLists)
    \/ PdCreation(CreationTexts)
    \/ PdScanSource
    \/ PdFallback

SpecDate == InitDate /\ [][NextDate]_vars

(***************************************************************************)
(* extract_base_url applied to a URL, and then to its own result.  The     *)
(* URLs are absolute or relative, with zero, one or two "/answer/" markers *)
(* in the path, with and without a query and a fragment.                   *)
(***************************************************************************)
BasePaths ==
    { <<>>, <<"/", "T">>, <<"/", "T">> \o AnswerMark \o <<"A", "-", "B">>,
      <<"/", "T">> \o AnswerMark \o <<"A">> \o AnswerMark \o <<"B">>,
      AnswerMark \o <<"A">>, <<"/", "T", "/", "a", "n", "s", "w", "e", "r", "s">> }
BaseQueries == { <<>>, <<"?", "s", "=", "1">>, <<"?", "r", "=">> \o AnswerMark }
BaseFragments == { <<>>, <<"#", "c">>, <<"#">> \o AnswerMark }
BaseUrlInputs ==
    {pre \o path \o query \o fragment :
        pre \in { <<>>, Https \o SchemeSep \o Host }, path \in BasePaths,
        query \in BaseQueries, fragment \in BaseFragments}

InitBaseUrl == Loaded("base_url", BaseUrlInputs, {})

\* base_url = extract_base_url(url)
BaseUrlOnce ==
    /\ pc = "base_url"
    /\ result' = <<[base_url |-> extract_base_url(url)]>>
    /\ pc' = "base_once"
    /\ UNCHANGED <<url, cur, page, is_deleted, author_name, post_date, stats,
                   invoked, how, last_get, pdLocals, strat>>
    /\ UNCHANGED <<batchVars, mainVars, codeVars>>

\* extract_base_url(base_url)
BaseUrlTwice ==
    /\ pc = "base_once"
    /\ result' = Append(result, [base_url |-> extract_base_url(result[1].base_url)])
    /\ pc' = "base_twice"
    /\ UNCHANGED <<url, cur, page, is_deleted, author_name, post_date, stats,
                   invoked, how, last_get, pdLocals, strat>>
    /\ UNCHANGED <<batchVars, mainVars, codeVars>>

NextBaseUrl == BaseUrlOnce \/ BaseUrlTwice

SpecBaseUrl == InitBaseUrl /\ [][NextBaseUrl]_vars

(***************************************************************************)
(* extract_post_date called on a loaded page whose log view shows one      *)
(* timed date: every hour of the 12-hour clock, AM and PM, with and        *)
(* without seconds, as a span of the log view and in its page source.      *)
(***************************************************************************)
\* "January 1, 2023 at h:30 AM", "January 1, 2023 at h:30:15 PM", ...
ClockText(h, ampm, seconds) ==
    << <<"January">>, <<"1">>, Comma, Y2023, At, StrOf(h), Colon, <<"3", "0">> >>
    \o (IF seconds THEN << Colon, <<"1", "5">> >> ELSE << >>)
    \o << ampm >>

ClockTexts ==
    {ClockText(h, ampm, seconds) :
        h \in 1..12, ampm \in { <<"AM">>, <<"PM">> }, seconds \in BOOLEAN}

ClockSpanLists == { <<>>, <<NoDateText>> } \cup { <<t>> : t \in ClockTexts }

InitClock == Loaded("post_date", {AnswerUrl}, {})

NextClock ==
    \/ PdStart
    \/ PdReadSource(ClockTexts)
    \/ PdSpans(ClockSpanLists)
    \/ PdCreation({None, NoDateText})
    \/ PdScanSource
    \/ PdFallback

SpecClock == InitClock /\ [][NextClock]_vars

(***************************************************************************)
(* extract_post_date called on a loaded page whose log view shows the same *)
(* day in several forms, so that candidates tie on the least timestamp,    *)
(* and in one form whose month word is no month name.                      *)
(***************************************************************************)
\* "February 3, 2024"
SimpleFeb3 == << <<"February">>, <<"3">>, Comma, Y2024 >>
\* "Feb 3, 2024"
ShortFeb3 == << <<"Feb">>, <<"3">>, Comma, Y2024 >>

\* "Smarch 3, 2024": the month word is no month name
UnknownMonth3 == << <<"Smarch">>, <<"3">>, Comma, Y2024 >>

TieTexts == {SimpleFeb3, ShortFeb3, AltFeb3}
DayTexts == TieTexts \cup {UnknownMonth3}

InitTies == Loaded("post_date", {AnswerUrl}, {})

NextTies ==
    \/ PdStart
    \/ PdReadSource({Concat(f) : f \in SeqsUpTo(DayTexts, MaxSrcFrags)})
    \/ PdSpans(SeqsUpTo(DayTexts \cup {NoDateText}, MaxSpans))
    \/ PdCreation({None, NoDateText})
    \/ PdScanSource
    \/ PdFallback

SpecTies == InitTies /\ [][NextTies]_vars

(***************************************************************************)
(* process_quora_urls of src/main.py: the loop over the rows handed to it. *)
(* scrape_quora_answer is taken by its return, which is the error-tagged   *)
(* record or a compiled record; each call of sheet.update_cell may raise.  *)
(***************************************************************************)
\* the argument quora_urls: one entry for each row, rows 2, 3, ...
BatchInputs ==
    {[i \in 1..Len(us) |-> [row |-> i + 1, url |-> us[i]]] :
        us \in SeqsUpTo(FewUrls, MaxUrls)}

\* a record scrape_quora_answer compiles for url
SampleRecord ==
    [answer_url |-> url,
     base_url   |-> extract_base_url(url),
     author     |-> <<"J", "o">>,
     post_date  |-> Approx,
     stats      |-> [ZeroStats EXCEPT !.views = <<"7">>],
     scraped_at |-> Now,
     is_deleted |-> FALSE]

\* "error" in result
HasError(rec) == "error" \in DOMAIN rec

\* datetime.datetime.now().strftime("%Y-%m-%d %H:%M:%S")
SheetNow == <<"<timestamp>">>

\* the cells of a row written with the processed flag first
SheetCellsFlagFirst(row, rec) ==
    << [row |-> row, col |-> 16, val |-> <<"TRUE">>],
       [row |-> row, col |-> 2,  val |-> rec.base_url],
       [row |-> row, col |-> 7,  val |-> rec.author],
       [row |-> row, col |-> 8,  val |-> rec.post_date],
       [row |-> row, col |-> 9,  val |-> rec.stats.views],
       [row |-> row, col |-> 10, val |-> rec.stats.upvotes],
       [row |-> row, col |-> 11, val |-> rec.stats.comments],
       [row |-> row, col |-> 12, val |-> rec.stats.shares],
       [row |-> row, col |-> 13, val |-> SheetNow] >>

\* lines 922-946: the cells process_quora_urls writes for a record, in order
SheetCells(row, rec) ==
    << [row |-> row, col |-> 2,  val |-> rec.base_url],
       [row |-> row, col |-> 7,  val |-> rec.author],
       [row |-> row, col |-> 8,  val |-> rec.post_date],
       [row |-> row, col |-> 9,  val |-> rec.stats.views],
       [row |-> row, col |-> 10, val |-> rec.stats.upvotes],
       [row |-> row, col |-> 11, val |-> rec.stats.comments],
       [row |-> row, col |-> 12, val |-> rec.stats.shares],
       [row |-> row, col |-> 13, val |-> SheetNow],
       [row |-> row, col |-> 16, val |-> <<"TRUE">>] >>

InitBatch ==
    /\ quora_urls \in BatchInputs
    /\ url_index = 0
    /\ results = <<>>
    /\ sheet = {}
    /\ waited = FALSE
    /\ url = None
    /\ pc = "batch"
    /\ cur = BlankUrl
    /\ page = [loaded |-> FALSE, deleted |-> FALSE]
    /\ is_deleted = FALSE
    /\ author_name = None
    /\ post_date = None
    /\ stats = [views |-> None, upvotes |-> None, comments |-> None, shares |-> None]
    /\ result = <<>>
    /\ invoked = {}
    /\ how = How("none", "pending")
    /\ last_get = None
    /\ original_url = None
    /\ page_source = None
    /\ restricted_access = FALSE
    /\ date_spans = <<>>
    /\ all_found_dates = NoDates
    /\ all_date_objects = NoDates
    /\ pd_out = Declined
    /\ strat = 1
    /\ NoMain
    /\ NoCode

batchFrame == <<cur, page, is_deleted, author_name, post_date, stats, invoked,
                how, last_get, pdLocals, strat, quora_urls, mainVars, codeVars>>

\* lines 906-908: the for loop takes the next url_data
BatchTake ==
    /\ pc = "batch"
    /\ url_index < Len(quora_urls)
    /\ url_index' = url_index + 1
    /\ url' = quora_urls[url_index + 1].url
    /\ pc' = "batch_scrape"
    /\ UNCHANGED <<batchFrame, result, results, sheet, waited>>

\* lines 913-917: result = scrape_quora_answer(driver, url); an error-tagged
\* record ends the iteration (continue)
BatchScrape ==
    /\ pc = "batch_scrape"
    /\ \E rec \in {ErrorRecord(e) : e \in Exceptions} \cup {SampleRecord} :
            /\ result' = Append(result, rec)
            /\ pc' = IF HasError(rec) THEN "batch" ELSE "batch_sheet"
    /\ waited' = FALSE
    /\ UNCHANGED <<batchFrame, url, url_index, results, sheet>>

\* lines 919-966: the cells of the row are written until a call of
\* sheet.update_cell raises (failAt) or all are written (failAt = 0); in
\* both cases the record is appended to results and the delay between
\* requests, time.sleep(random.uniform(3, 7)), is slept
BatchSheet ==
    /\ pc = "batch_sheet"
    /\ LET row   == quora_urls[url_index].row
           rec   == result[Len(result)]
           cells == SheetCells(row, rec)
       IN  /\ \E failAt \in 0..Len(cells) :
                sheet' = sheet \cup
                    {cells[k] : k \in 1..(IF failAt = 0 THEN Len(cells) ELSE failAt - 1)}
           /\ results' = Append(results, [row |-> row, data |-> rec])
    /\ waited' = TRUE
    /\ pc' = "batch"
    /\ UNCHANGED <<batchFrame, url, url_index, result>>

\* line 968: return results
BatchReturn ==
    /\ pc = "batch"
    /\ url_index = Len(quora_urls)
    /\ pc' = "batch_done"
    /\ UNCHANGED <<batchFrame, url, url_index, result, results, sheet, waited>>

NextBatch == BatchTake \/ BatchScrape \/ BatchSheet \/ BatchReturn

SpecBatch == InitBatch /\ [][NextBatch]_vars

(***************************************************************************)
(* get_2fa_code_from_sheet of src/main.py: the "Code" worksheet is opened  *)
(* or created, cell A1 is read up to max_attempts times with a sleep       *)
(* between the attempts, and a code that is read is cleared from the cell. *)
(* Each call of the spreadsheet client may raise; while the function       *)
(* sleeps the user may type anything into the cell.                        *)
(***************************************************************************)
\* no variable of scrape_quora_answer is in use
NotScraping ==
    /\ url = None
    /\ cur = BlankUrl
    /\ page = [loaded |-> FALSE, deleted |-> FALSE]
    /\ is_deleted = FALSE
    /\ author_name = None
    /\ post_date = None
    /\ stats = [views |-> None, upvotes |-> None, comments |-> None, shares |-> None]
    /\ result = <<>>
    /\ invoked = {}
    /\ how = How("none", "pending")
    /\ last_get = None
    /\ original_url = None
    /\ page_source = None
    /\ restricted_access = FALSE
    /\ date_spans = <<>>
    /\ all_found_dates = NoDates
    /\ all_date_objects = NoDates
    /\ pd_out = Declined
    /\ strat = 1

\* the spreadsheet has no worksheet "Code"
NoWorksheet == <<"<WorksheetNotFound>">>

\* line 217: the text put into A1 of a new worksheet
Prompt == <<"Enter 2FA code here when prompted">>

\* line 233: "Code used at " + datetime.datetime.now().strftime(...)
CodeUsed == <<"Code used at ">> \o SheetNow

\* the values of cell A1: None is the empty cell
CellValues ==
    { None,
      <<Blank>>,
      <<"1", "2", "3">>,
      <<"1", "2", "3", "4">>,
      <<Blank, "1", "2", "3", "4", Blank>>,
      <<"1", "2", "a", "4">>,
      Prompt,
      CodeUsed }

\* line 228: code_cell and code_cell.strip().isdigit() and len(code_cell.strip()) >= 4
LooksLikeCode(cell) ==
    /\ cell # None
    /\ cell # <<>>
    /\ IsDigit(Strip(cell))
    /\ Len(Strip(cell)) >= 4

InitCode ==
    /\ pc = "code_open"
    /\ max_attempts \in 0..MaxAttempts
    /\ attempt = 0
    /\ a1 \in CellValues \cup {NoWorksheet}
    /\ code_cell = None
    /\ code = None
    /\ ops = <<>>
    /\ NotScraping
    /\ NoBatch
    /\ NoMain

codeFrame == <<url, cur, page, is_deleted, author_name, post_date, stats, result,
               invoked, how, last_get, pdLocals, strat, batchVars, mainVars>>

\* lines 245-247: except Exception: return None
CodeRaised ==
    /\ code' = None
    /\ pc' = "code_done"

\* lines 206-218: open the spreadsheet, open or create the worksheet "Code"
CodeOpen ==
    /\ pc = "code_open"
    /\ \/ CodeRaised /\ UNCHANGED a1
       \/ a1 = NoWorksheet /\ a1' = None /\ CodeRaised
       \/ a1 = NoWorksheet /\ a1' = Prompt /\ pc' = "code_loop" /\ UNCHANGED code
       \/ a1 # NoWorksheet /\ pc' = "code_loop" /\ UNCHANGED <<a1, code>>
    /\ UNCHANGED <<codeFrame, max_attempts, attempt, code_cell, ops>>

\* lines 221-228: one attempt reads A1 and looks at the value
CodeRead ==
    /\ pc = "code_loop"
    /\ attempt < max_attempts
    /\ ops' = Append(ops, "read")
    /\ \/ CodeRaised /\ UNCHANGED code_cell
       \/ /\ code_cell' = a1
          /\ pc' = IF LooksLikeCode(a1) THEN "code_found" ELSE "code_miss"
          /\ UNCHANGED code
    /\ UNCHANGED <<codeFrame, max_attempts, attempt, a1>>

\* lines 229-235: the code is cleared from the sheet and returned
CodeClear ==
    /\ pc = "code_found"
    /\ \/ CodeRaised /\ UNCHANGED <<a1, ops>>
       \/ /\ a1' = CodeUsed
          /\ ops' = Append(ops, "write")
          /\ code' = Strip(code_cell)
          /\ pc' = "code_done"
    /\ UNCHANGED <<codeFrame, max_attempts, attempt, code_cell>>

\* the end of an attempt that sleeps whatever the number of the attempt
CodeWaitAfterLast ==
    /\ pc = "code_miss"
    /\ ops' = Append(ops, "wait")
    /\ a1' \in CellValues
    /\ attempt' = attempt + 1
    /\ pc' = "code_loop"
    /\ UNCHANGED <<codeFrame, max_attempts, code_cell, code>>

\* lines 237-240: no code in the cell; sleep unless this was the last attempt
CodeWait ==
    /\ pc = "code_miss"
    /\ IF attempt < max_attempts - 1
       THEN /\ ops' = Append(ops, "wait")
            /\ a1' \in CellValues
       ELSE UNCHANGED <<ops, a1>>
    /\ attempt' = attempt + 1
    /\ pc' = "code_loop"
    /\ UNCHANGED <<codeFrame, max_attempts, code_cell, code>>

\* lines 242-243: the loop is exhausted
CodeGiveUp ==
    /\ pc = "code_loop"
    /\ attempt >= max_attempts
    /\ code' = None
    /\ pc' = "code_done"
    /\ UNCHANGED <<codeFrame, max_attempts, attempt, a1, code_cell, ops>>

NextCode == CodeOpen \/ CodeRead \/ CodeClear \/ CodeWait \/ CodeGiveUp

\* the function is sequential code: a step that can be taken is taken
SpecCode == InitCode /\ [][NextCode]_vars /\ WF_vars(NextCode)

(***************************************************************************)
(* main of src/main.py: the URLs are taken from the command line or from   *)
(* the sheet, the WebDriver is set up, Quora is logged into, the URLs are  *)
(* processed and the WebDriver is closed.  login_to_quora is taken by its  *)
(* outcome; process_quora_urls runs as the actions of NextBatch.           *)
(***************************************************************************)
QuoraHost == <<"q", "u", "o", "r", "a", ".", "c", "o", "m">>
QuoraAnswerUrl == Https \o SchemeSep \o QuoraHost \o <<"/", "T">> \o AnswerMark \o <<"A", "-", "B">>

\* lines 898-900: "quora.com" in url
is_quora_url(u) == Contains(QuoraHost, u)

\* the unprocessed rows get_urls_from_sheet returns: rows 2, 3, ...
SheetInputs ==
    {[i \in 1..Len(us) |-> [row |-> i + 1, url |-> us[i]]] :
        us \in SeqsUpTo({QuoraAnswerUrl, AnswerUrl}, MaxSheetUrls)}

\* lines 1003: [url for url in urls if is_quora_url(url['url'])]
RECURSIVE QuoraOnly(_)
QuoraOnly(urls) ==
    IF urls = <<>> THEN <<>>
    ELSE IF is_quora_url(Head(urls).url)
    THEN <<Head(urls)>> \o QuoraOnly(Tail(urls))
    ELSE QuoraOnly(Tail(urls))

InitMain ==
    /\ main_pc = "main_start"
    /\ args \in [login : BOOLEAN, url : {None, QuoraAnswerUrl}]
    /\ driver_created = FALSE
    /\ quit_calls = 0
    /\ pc = "idle"
    /\ NotScraping
    /\ NoBatch
    /\ NoCode

mainFrame == <<cur, page, is_deleted, author_name, post_date, stats, invoked,
               how, last_get, pdLocals, strat, codeVars, args>>

\* lines 1085-1087: except Exception of main; and the return of main
MainEnds == main_pc' = "main_done"

\* lines 972-1010: the Google API is set up and the URLs are collected;
\* main returns when there is none
MainCollect ==
    /\ main_pc = "main_start"
    /\ \/ MainEnds /\ UNCHANGED quora_urls
       \/ /\ args.url # None
          /\ quora_urls' = <<[row |-> 1, url |-> args.url]>>
          /\ main_pc' = "main_webdriver"
       \/ /\ args.url = None
          /\ \E urls \in SheetInputs :
                IF urls = <<>> \/ QuoraOnly(urls) = <<>>
                THEN MainEnds /\ UNCHANGED quora_urls
                ELSE /\ quora_urls' = QuoraOnly(urls)
                     /\ main_pc' = "main_webdriver"
    /\ UNCHANGED <<mainFrame, url, pc, result, url_index, results, sheet, waited,
                   driver_created, quit_calls>>

\* line 1014 and setup_webdriver, lines 158-197: the browser is started at
\* line 183 and then configured (lines 186-195); each of these calls may raise
MainSetupWebdriver ==
    /\ main_pc = "main_webdriver"
    /\ \/ MainEnds /\ UNCHANGED driver_created
       \/ driver_created' = TRUE /\ MainEnds
       \/ driver_created' = TRUE /\ main_pc' = "main_login"
    /\ UNCHANGED <<mainFrame, url, pc, result, batchVars, quit_calls>>

\* lines 1016-1037: the login, if requested and the credentials are found;
\* its success is only reported; an exception that escapes goes to finally
MainLogin ==
    /\ main_pc = "main_login"
    /\ \/ main_pc' = "main_process"
       \/ args.login /\ main_pc' = "main_finally"
    /\ UNCHANGED <<mainFrame, url, pc, result, batchVars, driver_created, quit_calls>>

\* lines 1043-1046: single URL mode, the loop takes the one URL
MainSingle ==
    /\ main_pc = "main_process"
    /\ args.url # None
    /\ url' = quora_urls[1].url
    /\ main_pc' = "main_scrape"
    /\ UNCHANGED <<mainFrame, pc, result, batchVars, driver_created, quit_calls>>

\* lines 1048-1064: the URL is scraped and the record is printed; an
\* exception may escape (KeyboardInterrupt)
MainSingleScrape ==
    /\ main_pc = "main_scrape"
    /\ main_pc' = "main_finally"
    /\ \/ UNCHANGED result
       \/ \E rec \in {ErrorRecord(e) : e \in Exceptions} \cup {SampleRecord} :
                result' = Append(result, rec)
    /\ UNCHANGED <<mainFrame, url, pc, batchVars, driver_created, quit_calls>>

\* line 1067: process_quora_urls is called
MainProcess ==
    /\ main_pc = "main_process"
    /\ args.url = None
    /\ pc' = "batch"
    /\ main_pc' = "main_batch"
    /\ UNCHANGED <<mainFrame, url, result, batchVars, driver_created, quit_calls>>

\* lines 1069-1078: process_quora_urls has returned, the summary is printed
MainSummary ==
    /\ main_pc = "main_batch"
    /\ pc = "batch_done"
    /\ main_pc' = "main_finally"
    /\ UNCHANGED <<mainFrame, url, pc, result, batchVars, driver_created, quit_calls>>

\* an exception escapes process_quora_urls (KeyboardInterrupt)
MainEscape ==
    /\ main_pc = "main_batch"
    /\ pc \in {"batch", "batch_scrape", "batch_sheet"}
    /\ pc' = "idle"
    /\ main_pc' = "main_finally"
    /\ UNCHANGED <<mainFrame, url, result, batchVars, driver_created, quit_calls>>

\* lines 1080-1083: finally: driver.quit()
MainQuit ==
    /\ main_pc = "main_finally"
    /\ quit_calls' = quit_calls + 1
    /\ MainEnds
    /\ UNCHANGED <<mainFrame, url, pc, result, batchVars, driver_created>>

NextMain ==
    \/ MainCollect
    \/ MainSetupWebdriver
    \/ MainLogin
    \/ MainSingle
    \/ MainSingleScrape
    \/ MainProcess
    \/ MainSummary
    \/ MainEscape
    \/ MainQuit
    \/ NextBatch

\* main is sequential code: a step that can be taken is taken
SpecMain == InitMain /\ [][NextMain]_vars /\ WF_vars(NextMain)

(***************************************************************************)
(* The properties.                                                         *)
(***************************************************************************)
Returned == pc = "done"

IsErrorRecord(r) == "error" \in DOMAIN r
IsNormalRecord(r) == "error" \notin DOMAIN r /\ "is_deleted" \in DOMAIN r

\* C1: scrape_quora_answer never raises, and a call returns exactly one
\* record, a normal one or an error-tagged one, whatever the renderer's
\* operations do: no record before the return, one at the return
C1_OneRecordPerCall ==
    /\ pc # "raised"
    /\ Len(result) = (IF Returned THEN 1 ELSE 0)
    /\ \A i \in 1..Len(result) : IsErrorRecord(result[i]) \/ IsNormalRecord(result[i])

\* a call that returned the error-tagged record after an extractor had been
\* called and a renderer operation raised
C1_Witness ==
    /\ Returned
    /\ Len(result) = 1
    /\ IsErrorRecord(result[1])
    /\ invoked # {}

StatFields == {"views", "upvotes", "comments", "shares"}

\* a non-negative integer written in decimal digits
DigitString(t) == t # <<>> /\ \A i \in 1..Len(t) : t[i] \in Digits

\* C2: in every record scrape_quora_answer returns, each of the four stats
\* is present and is a string of decimal digits: no decimal point, no comma,
\* no K or M
C2_StatsAreDigitStrings ==
    \A i \in 1..Len(result) :
        /\ DOMAIN result[i].stats = StatFields
        /\ \A f \in StatFields : DigitString(result[i].stats[f])

\* C3: when the loaded page shows a deletion indicator, then once the
\* deletion check has run only the date resolver is called, and the record
\* returned has is_deleted true, the author "POST DELETED", the four stats
\* "0" and the resolver's date
C3_DeletedRecord ==
    (Returned /\ page.loaded /\ page.deleted /\ invoked # {} /\ Len(result) = 1) =>
        /\ invoked = {"post_date"}
        /\ IsNormalRecord(result[1])
        /\ result[1].is_deleted
        /\ result[1].author = PostDeleted
        /\ result[1].stats = ZeroStats
        /\ result[1].post_date = post_date

\* C4: when the navigation or the wait for the body fails, no extractor is
\* called, and the record returned carries the text of the exception as its
\* error, the author "Error", the four stats "0", and the two URLs derived
\* from the input URL
C4_NavigationFailure ==
    (Returned /\ ~page.loaded /\ Len(result) = 1) =>
        /\ invoked = {}
        /\ IsErrorRecord(result[1])
        /\ result[1].error \in Exceptions
        /\ result[1].error # <<>>
        /\ result[1].author = ErrorText
        /\ result[1].stats = ZeroStats
        /\ result[1].answer_url = url
        /\ result[1].base_url = extract_base_url(url)

\* a failed navigation to an answer URL, whose base URL is a proper prefix
C4_Witness ==
    /\ Returned
    /\ ~page.loaded
    /\ Len(result) = 1
    /\ url = AnswerUrl
    /\ result[1].base_url = ThreadUrl

\* C5: once the page has loaded and the extractors are called, a failure
\* inside one of them does not abort the others: the record returned has no
\* error field and carries the author that was extracted
C5_FieldFailuresStayLocal ==
    (Returned /\ page.loaded /\ invoked # {} /\ Len(result) = 1) =>
        /\ IsNormalRecord(result[1])
        /\ result[1].author = author_name

\* C6: extract_post_date never raises, whatever the renderer's operations do
C6_PostDateNeverRaises == pc # "pd_raise"

\* C7: a count extractor never raises, and returns "0" when every one of its
\* strategies has declined, by finding nothing or by a raise of the renderer
C7_CountDefault ==
    /\ pc # "raised"
    /\ (pc = "returned" /\ how.field \in StatFields) =>
            /\ DOMAIN stats = StatFields
            /\ how.outcome \in {"exhausted", "aborted"} => stats[how.field] = Zero
            /\ \A f \in StatFields \ {how.field} : stats[f] = None

\* an extractor has returned after a raise of the renderer outside the inner
\* try blocks
C7_Witness ==
    /\ pc = "returned"
    /\ how.field \in StatFields
    /\ how.outcome = "aborted"
    /\ stats[how.field] = Zero

RECURSIVE ParseFragments(_, _)
\* the Date Parser run over a text from token i on, with the precedence the
\* specification gives it: the first of the three patterns that matches at
\* a place is the one reported for that place
ParseFragments(t, i) ==
    IF i > Len(t) THEN NoDates
    ELSE IF TimedAt(t, i)
    THEN LET g == TimedGroups(t, i)
         IN  TimedCandidate(g, TimedText(g.month, StrOf(IntOf(g.day)),
                                         StrOf(IntOf(g.year)), g))
             \o ParseFragments(t, i + TimedLen(t, i))
    ELSE IF SimpleAt(t, i)
    THEN LET g == SimpleGroups(t, i)
         IN  MidnightCandidate(g, SimpleText(g.month, StrOf(IntOf(g.day)),
                                             StrOf(IntOf(g.year))))
             \o ParseFragments(t, i + 4)
    ELSE IF AltAt(t, i)
    THEN LET g == AltGroups(t, i)
         IN  MidnightCandidate(g, SimpleText(g.month, StrOf(IntOf(g.day)),
                                             StrOf(IntOf(g.year))))
             \o ParseFragments(t, i + AltLen(t, i))
    ELSE ParseFragments(t, i + 1)

Timestamps(dates) == {dates[i].ts : i \in 1..Len(dates)}

PdEnded == pc \in {"pd_ret", "pd_raise"}

\* C9: when a span of the log view parsed into a candidate, or, on the
\* page-source path, a fragment of the page source did, extract_post_date
\* returns the display text of the candidate with the least timestamp
C9_EarliestReturned ==
    PdEnded =>
        /\ all_found_dates # NoDates =>
                pd_out = Value(Earliest(all_found_dates).text)
        /\ (all_found_dates = NoDates /\ all_date_objects # NoDates) =>
                pd_out = Value(Earliest(ParseFragments(page_source, 1)).text)

\* C10: a text that pattern 1 matches gives one candidate, the timed one,
\* and no untimed one besides: the log view gives at most one candidate a
\* span, and the scan of the page source gives the candidates of the Date
\* Parser and no others
C10_ExclusivePrecedence ==
    /\ Len(all_found_dates) <= Len(date_spans)
    /\ all_date_objects # NoDates =>
            /\ Len(all_date_objects) = Len(ParseFragments(page_source, 1))
            /\ Timestamps(all_date_objects) = Timestamps(ParseFragments(page_source, 1))
            /\ PdEnded /\ pd_out.kind = "value" /\ pd_out.val # Approx =>
                    pd_out.val = Earliest(ParseFragments(page_source, 1)).text

\* the numeric part x = digits[,digits][.digits] times mul, truncated to an
\* integer, in exact decimal arithmetic
ExactScale(x, mul) ==
    LET y   == Remove(x, ",")
        dot == Find(<<".">>, y)
        ip  == IF dot = 0 THEN y ELSE SubSeq(y, 1, dot - 1)
        fr  == IF dot = 0 THEN <<>> ELSE SubSeq(y, dot + 1, Len(y))
    IN  ((IntOf(ip) * Pow10(Len(fr)) + IntOf(fr)) * mul) \div Pow10(Len(fr))

\* the count a displayed token stands for, as a decimal string
Expanded(tok) ==
    LET low == Lower(tok) IN
    IF EndsWith(low, <<"k">>) THEN StrOf(ExactScale(Remove(low, "k"), 1000))
    ELSE IF EndsWith(low, <<"m">>) THEN StrOf(ExactScale(Remove(low, "m"), 1000000))
    ELSE Remove(tok, ",")

\* an extractor has returned the value of one of its strategies
ReturnedHit == pc = "returned" /\ how.outcome = "hit"

\* C11: a count token matched by the count pattern is returned as its
\* numeric part times 1000 (suffix K or k) or times 1,000,000 (suffix M or
\* m), truncated to an integer, and otherwise as the same text without its
\* commas, in the view, upvote, comment and share extractors alike.
C11_CountNormalization ==
    (ReturnedHit /\ how.via = "token") => stats[how.field] = Expanded(how.src)

\* the hour of the 24-hour clock that hour h of the 12-hour clock stands for
ClockHour(h, ampm) ==
    IF h = 12 THEN (IF ampm = <<"AM">> THEN 0 ELSE 12)
    ELSE IF ampm = <<"PM">> THEN h + 12
    ELSE h

\* the timestamp the timed text t stands for
ClockTs(t) ==
    LET g == TimedGroups(t, FirstTimed(t))
    IN  << IntOf(g.year), MonthNum(g.month), IntOf(g.day),
           ClockHour(IntOf(g.hour), g.ampm), IntOf(g.minute),
           IF g.second = <<>> THEN 0 ELSE IntOf(g.second) >>

\* the span list is one timed text and the log view has parsed it
LogParsed ==
    /\ pc \notin {"post_date", "pd_source", "pd_spans"}
    /\ Len(date_spans) = 1
    /\ FirstTimed(date_spans[1]) # 0

\* the page source is a timed text and the page-source scan has parsed it
SourceParsed ==
    /\ pc \in {"pd_fallback", "pd_ret", "pd_raise"}
    /\ all_date_objects # NoDates
    /\ FirstTimed(page_source) # 0

C13_BackToOriginalUrl ==
    pc = "pd_ret" => (original_url = url /\ last_get = original_url)

\* a return of a date of the log view of an answer URL: the navigation to
\* the log view has been followed by the one back
C13_Witness ==
    /\ pc = "pd_ret"
    /\ url = AnswerUrl
    /\ all_found_dates # NoDates
    /\ all_date_objects = NoDates
    /\ pd_out.val # Approx
    /\ last_get = AnswerUrl

\* the part of a URL before its query and fragment, and the rest of it
UrlStem(u) == SubSeq(u, 1, FirstOf(u, {"?", "#"}) - 1)
UrlRest(u) == SubSeq(u, FirstOf(u, {"?", "#"}), Len(u))

\* extract_base_url has been applied to url
BaseUrlDone == pc \in {"base_once", "base_twice"}

\* what is common to both readings of the derivation: a URL without the
\* marker in its path is unchanged, a second application changes nothing
BaseUrlStable ==
    /\ (BaseUrlDone /\ ~Contains(AnswerMark, UrlStem(url))) =>
            result[1].base_url = url
    /\ pc = "base_twice" => result[2].base_url = result[1].base_url

\* C14: extract_base_url gives, for a URL whose path contains "/answer/",
\* the URL truncated at the first "/answer/" marker; a URL without
\* "/answer/" is returned unchanged; the function is idempotent and never
\* raises.
C14_UrlTruncatedAtMarker ==
    /\ BaseUrlStable
    /\ (BaseUrlDone /\ Contains(AnswerMark, UrlStem(url))) =>
            result[1].base_url = SplitHead(url, AnswerMark)

\* C14, amended: for a URL whose path contains "/answer/" the path is
\* truncated at the first "/answer/" marker and the query and the fragment
\* of the URL are kept behind it; a URL without "/answer/" in its path is
\* returned unchanged; the function is idempotent and never raises.
C14_PathTruncatedAtMarker ==
    /\ BaseUrlStable
    /\ (BaseUrlDone /\ Contains(AnswerMark, UrlStem(url))) =>
            result[1].base_url = SplitHead(UrlStem(url), AnswerMark) \o UrlRest(url)

\* https://x.com/T/answer/A-B?s=1 gives https://x.com/T?s=1, twice
C14_Witness ==
    /\ pc = "base_twice"
    /\ url = AnswerUrl \o <<"?", "s", "=", "1">>
    /\ result[1].base_url = ThreadUrl \o <<"?", "s", "=", "1">>
    /\ result[2].base_url = result[1].base_url

\* process_quora_urls has returned, and scrape_quora_answer returned the
\* error-tagged record for exactly one of the urls
OneUrlFailed ==
    /\ pc = "batch_done"
    /\ Cardinality({i \in 1..Len(result) : HasError(result[i])}) = 1

\* C15: processing a list of N URLs of which one fails at navigation yields
\* exactly N records in input order: the record of the failing URL carries
\* a non-empty error and the sentinel values, the records of the URLs
\* before and after it are the ones scrape_quora_answer returned for them.
C15_OneRecordPerUrl ==
    OneUrlFailed =>
        /\ Len(results) = Len(quora_urls)
        /\ \A i \in 1..Len(results) :
                /\ results[i].row = quora_urls[i].row
                /\ results[i].data = result[i]
                /\ HasError(result[i]) =>
                        /\ result[i].error # <<>>
                        /\ result[i].author = ErrorText
                        /\ result[i].stats = ZeroStats

\* C16: every record returned by scrape_quora_answer, the error-tagged one
\* included, has the same shape: scraped_at is set, and is_deleted is
\* present with a boolean value.
C16_RecordShape ==
    \A i \in 1..Len(result) :
        /\ "scraped_at" \in DOMAIN result[i]
        /\ result[i].scraped_at # None
        /\ "is_deleted" \in DOMAIN result[i]
        /\ result[i].is_deleted \in BOOLEAN

\* a step of a running extractor either goes on to its next strategy
\* and leaves every result as it is, or returns, on a hit the value of the
\* strategy just queried
StrategyStep ==
    pc \in Extractors =>
        \/ /\ pc' = pc
           /\ strat' = strat + 1
           /\ stats' = stats
           /\ author_name' = author_name
           /\ how' = how
        \/ /\ pc' = "returned"
           /\ how'.field = pc
           /\ (how'.outcome = "hit" => how'.at = strat)
           /\ \A f \in StatFields \ {pc} : stats'[f] = stats[f]

C18_NoLongDigitText ==
    (ReturnedHit /\ how.field \in StatFields /\ how.via # "token"
        /\ IsDigit(how.src)) => Len(stats[how.field]) < IdLimit

\* the text is one count token: digits, comma groups, a fraction, a suffix
IsCountToken(text) == text # <<>> /\ TokenEnd(text, 1) = Len(text)

\* C19: whenever a strategy of a count extractor accepts a match, the value
\* returned is the result of the count normalization for the displayed
\* count token: a count displayed with a decimal point or a K/M suffix is
\* returned expanded, never as the concatenation of its digit characters.
C19_DisplayedTokenNormalized ==
    (ReturnedHit /\ how.field \in StatFields /\ IsCountToken(how.src)) =>
        /\ NormalizeCount(how.src).kind = "value"
        /\ stats[how.field] = NormalizeCount(how.src).val

\* C20: every value returned by extract_author_name other than the default
\* "Name not found", whether it comes from a structural locator or from the
\* URL path segment after "/answer/", passes the validator: it is not
\* empty, is longer than one character and does not contain "answer".
\* (The text returned by the except clause is no value of a strategy; it
\* is 21 characters long and holds no "answer".)
C20_AuthorPassesValidator ==
    (ReturnedHit /\ how.field = "author") => AuthorAccepts(author_name)

\* the display text rebuilt from the groups of the first timed match of t
TimedDisplay(t) ==
    LET g == TimedGroups(t, FirstTimed(t)) IN TimedText(g.month, g.day, g.year, g)

\* C21: for a fragment that matches the timed format the display text is
\* rebuilt from the parsed components, "<Month> <Day>, <Year> at
\* <Hour>:<Minute>[:<Second>] <AM/PM>", and is never the raw fragment text:
\* text around the date inside the fragment never appears in the returned
\* post date, on the log view as on the page-source path.
C21_TimedTextRebuilt ==
    pc = "pd_ret" =>
        \A i \in 1..Len(date_spans) :
            (FirstTimed(date_spans[i]) # 0
                /\ Render(date_spans[i]) # TimedDisplay(date_spans[i])) =>
                    pd_out.val # Render(date_spans[i])

\* the browser shows a login page: its current URL contains "login"
AtLogin == Contains(<<"l", "o", "g", "i", "n">>, Lower(cur))

\* C22: when the log view is access-restricted by any of the fixed
\* indicators, the URL indicator (the current URL after the navigation to
\* the log view contains "login") included, extract_post_date runs no
\* element or script query against the log view and goes straight to the
\* scan of the page source.
C22_RestrictedSkipsLogView ==
    pc \in {"pd_spans", "pd_creation"} =>
        (~AtLogin /\ ~Restricted(page_source, cur))

\* the page source that the scan of lines 331-351 runs over is read in
\* this step, with the browser on the original answer page
SourceReadOnAnswerPage ==
    page_source' # page_source => (cur = original_url /\ last_get = original_url)

\* C23: when no date is found via the log view, the scan of the page source
\* runs over the source of the original answer page, not over the source of
\* the log view extract_post_date navigated to.
C23_ScanOfAnswerPage == [][SourceReadOnAnswerPage]_vars

\* the display text of the first of the candidates with the least timestamp
FirstLeast(dates) ==
    LET least(i) == \A j \in 1..Len(dates) : ~TsLess(dates[j].ts, dates[i].ts)
        first == CHOOSE i \in 1..Len(dates) :
                    least(i) /\ \A j \in 1..(i - 1) : ~least(j)
    IN  dates[first].text

\* extract_post_date returned a date of the log view's spans
LogViewReturned ==
    /\ pc = "pd_ret"
    /\ pd_out.val # Approx
    /\ all_found_dates # NoDates
    /\ all_date_objects = NoDates

\* extract_post_date returned a date of the page source
SourceReturned ==
    /\ pc = "pd_ret"
    /\ pd_out.val # Approx
    /\ all_date_objects # NoDates

\* C24: when several fragments parse to the same least timestamp, the text
\* returned is that of the first of them in scan order: the order of the
\* elements on the log view, the order of occurrence in the text on the
\* page-source path.
C24_FirstInOccurrenceOrder ==
    /\ LogViewReturned => pd_out.val = FirstLeast(LogCandidates(date_spans))
    /\ SourceReturned => pd_out.val = FirstLeast(ParseFragments(page_source, 1))

\* C24, amended: when several fragments parse to the same least timestamp,
\* the text returned is that of the first of them in scan order: the order
\* of the elements on the log view; on the page-source path the matches of
\* the timed pattern, then those of the standard pattern, then those of the
\* alternative pattern, each in the order of occurrence in the text.
C24_FirstInScanOrder ==
    /\ LogViewReturned => pd_out.val = FirstLeast(LogCandidates(date_spans))
    /\ SourceReturned =>
            pd_out.val = FirstLeast(FindAllTimed(page_source, 1)
                                    \o FindAllSimple(page_source, 1)
                                    \o FindAllAlt(page_source, 1))

\* "3 Feb 2024February 3, 2024" in the page source: both fragments are
\* midnight of the same day, the standard one is returned
C24_Witness ==
    /\ SourceReturned
    /\ page_source = AltFeb3 \o SimpleFeb3
    /\ pd_out.val = SimpleText(<<"February">>, <<"3">>, Y2024)

\* a step that ends the collection of the date spans without a candidate
\* goes on to the search for the creation marker
NoCandidateThenMarker ==
    (pc = "pd_spans" /\ pc' # pc /\ all_found_dates' = NoDates) =>
        pc' = "pd_creation"

\* C25: on the log view, when the collection of the date spans produces no
\* candidate (no span is found, or none of the spans found parses) and a
\* creation marker is found near a date-shaped text, extract_post_date
\* parses that date and returns it instead of falling back to the scan of
\* the page source.
C25_CreationMarkerConsulted == [][NoCandidateThenMarker]_vars

\* the text is shaped like a date, "<word> D, YYYY", and its month word is
\* no month name
UnknownMonthDate(t) ==
    /\ Len(t) = 4
    /\ t[1] \notin MonthNames
    /\ Num(t[2], 1, 2)
    /\ t[3] = Comma
    /\ Num(t[4], 4, 4)

\* C26: a date fragment whose month token is not a recognized month name is
\* not a parse failure: it produces a candidate with month = January.
C26_UnknownMonthIsJanuary ==
    pc \in {"pd_creation", "pd_scan_source", "pd_fallback", "pd_ret"} =>
        \A i \in 1..Len(date_spans) :
            UnknownMonthDate(date_spans[i]) =>
                \E k \in 1..Len(all_found_dates) :
                    all_found_dates[k].ts =
                        <<IntOf(date_spans[i][4]), 1, IntOf(date_spans[i][2]), 0, 0, 0>>

\* C27: in process_quora_urls, between the end of the processing of a URL
\* and the navigation to the next URL the randomized delay between requests
\* is slept, whatever the outcome of the first URL was (success, failure of
\* a sheet update, or error-tagged record).
C27_DelayBetweenUrls ==
    (pc = "batch_scrape" /\ url_index > 1) => waited

\* the columns of row r written so far
ColumnsWritten(r) == {c.col : c \in {x \in sheet : x.row = r}}

\* C28: in process_quora_urls the processed flag of a row (column 16,
\* "TRUE") is written only after all eight result cells of the row (base
\* URL, author, post date, the four stats, the timestamp) were written; for
\* an error-tagged record no cell of the row is written and the flag is not
\* set; a failure of a sheet update on one row does not stop the processing
\* of the later rows.
C28_FlagAfterAllCells ==
    /\ \A i \in 1..Len(quora_urls) :
            LET r == quora_urls[i].row IN
            /\ 16 \in ColumnsWritten(r) =>
                    {2, 7, 8, 9, 10, 11, 12, 13} \subseteq ColumnsWritten(r)
            /\ (i <= Len(result) /\ HasError(result[i])) => ColumnsWritten(r) = {}
    /\ pc = "batch_done" => Len(result) = Len(quora_urls)

\* three rows: the update of the first fails at its third cell, the second
\* URL gives the error-tagged record, the third row is written and flagged
C28_Witness ==
    /\ pc = "batch_done"
    /\ Len(quora_urls) = 3
    /\ ColumnsWritten(2) = {2, 7}
    /\ HasError(result[2])
    /\ ColumnsWritten(3) = {}
    /\ ColumnsWritten(4) = {2, 7, 8, 9, 10, 11, 12, 13, 16}

\* the number of entries op in the history ops
OpsCount(op) == Cardinality({i \in 1..Len(ops) : ops[i] = op})

\* every wait stands between two reads of A1
WaitsBetweenReads ==
    \A i \in 1..Len(ops) :
        ops[i] = "wait" =>
            /\ i > 1 /\ ops[i - 1] = "read"
            /\ i < Len(ops) => ops[i + 1] = "read"
            /\ pc = "code_done" => i < Len(ops)

\* a returned code is the trimmed cell value, all digits and at least four
\* long, and A1 was overwritten last, by a text that is no code
CodeReturned ==
    /\ code = Strip(code_cell)
    /\ IsDigit(code)
    /\ Len(code) >= 4
    /\ ops[Len(ops)] = "write"
    /\ a1 = CodeUsed
    /\ ~IsDigit(Strip(a1))

CodeBounds ==
    /\ OpsCount("read") <= max_attempts
    /\ OpsCount("wait") <= max_attempts - 1 \/ OpsCount("wait") = 0
    /\ WaitsBetweenReads
    /\ pc = "code_done" => (code = None \/ CodeReturned)
    /\ pc # "code_done" => code = None

\* C30: get_2fa_code_from_sheet terminates, after at most max_attempts reads
\* of cell A1, with a wait only between two consecutive attempts (at most
\* max_attempts - 1 waits, none after the last attempt); it returns a code
\* only if the trimmed cell value is all digits and at least 4 long, and then
\* it has overwritten A1 before returning; otherwise, and on any error of
\* the spreadsheet, it returns None.
C30_CodeRetrieval == []CodeBounds /\ <>(pc = "code_done")

\* a blank-padded code typed in during the first wait is read at the
\* second attempt, cleared from the cell and returned trimmed
C30_Witness ==
    /\ pc = "code_done"
    /\ ops = <<"read", "wait", "read", "write">>
    /\ code_cell = <<Blank, "1", "2", "3", "4", Blank>>
    /\ code = <<"1", "2", "3", "4">>
    /\ a1 = CodeUsed

\* C29: in main, once the WebDriver has been created, driver.quit() is
\* eventually called, and it is called exactly once, on every path; when
\* there is no URL to process the WebDriver is never created.
C29_DriverQuitOnce ==
    /\ [](quit_calls <= 1)
    /\ [](quora_urls = <<>> => ~driver_created)
    /\ driver_created ~> (quit_calls = 1)

====
